---- MODULE Spec2Model ----
(***************************************************************************)
(* A model of the cyh-obfuscator pipeline: the factory createObfuscator,   *)
(* the per-language obfuscate() methods and the text helpers they call.    *)
(*                                                                         *)
(* A source text is a sequence of atoms.  An atom is a one-character       *)
(* string, or a longer string that no pattern of the program matches in    *)
(* part: a placeholder (__JSSTR0__), a generated identifier, a run of a    *)
(* hundred letters, or a block of code the last stage emits.               *)
(*                                                                         *)
(* obfuscate() is modelled for the JavaScript, PHP, Ruby and Generic       *)
(* handlers; a call with the tag of another handler ends in the model once *)
(* createObfuscator has returned.                                          *)
(***************************************************************************)
EXTENDS Integers, Sequences, FiniteSets, TLC

VARIABLES
    lang,       \* the language tag given to obfuscateCode
    options,    \* the partial options record given to obfuscateCode
    opts,       \* the handler's options: defaultOptions overridden by options
    code,       \* the source text given to obfuscate
    handler,    \* what createObfuscator returned: a handler class, or what went wrong
    pc,         \* number of stages of obfuscate() already executed; 0 before the call
    result,     \* the local variable `result` of obfuscate()
    previous,   \* the text the last executed stage received (history variable)
    strings,    \* the placeholder table `strings` of obfuscate()
    varMap,     \* the identifier map of the call, in insertion order
    counter,    \* BaseObfuscator.counter of the handler instance
    restored,   \* the text right after the restoration loop (history variable)
    done,       \* the stages executed so far, in order (history variable)
    outcome,    \* "idle", "created", "running", "returned" or "threw"
    shebang,    \* the local variable `shebang` of BashObfuscator.obfuscate
    calls,      \* the obfuscate() calls made on the handler instance so far
    plain,      \* the argument `str` of JavaObfuscator.encryptString, as UTF-16 code units
    xorKey,     \* the local variable `key` of encryptString
    literals,   \* the local variable `chars` of encryptString: the literals 0x....
    decoded,    \* what the generated decoder expression appends, as code units
    args        \* the arguments of the call of a helper of BaseObfuscator, as a record

\* the variables of JavaObfuscator.encryptString and of the decoder it generates
encryptVars == <<plain, xorKey, literals, decoded>>

\* the variables of a call of one helper on its own
helperVars == <<args>>

vars == <<lang, options, opts, code, handler, pc, result, previous, strings, varMap, counter,
          restored, done, outcome, shebang, calls, encryptVars, helperVars>>

-----------------------------------------------------------------------------
(* Bounds of the model.                                                    *)

MaxFragments == 2

-----------------------------------------------------------------------------
(* Characters and character classes.                                       *)

LowerLetters == {"a", "b", "c", "d", "e", "f", "g", "h", "i", "j", "k", "l", "m",
                 "n", "o", "p", "q", "r", "s", "t", "u", "v", "w", "x", "y", "z"}

UpperLetters == {"A", "B", "C", "D", "E", "F", "G", "H", "I", "J", "K", "L", "M",
                 "N", "O", "P", "Q", "R", "S", "T", "U", "V", "W", "X", "Y", "Z"}

Digits == {"0", "1", "2", "3", "4", "5", "6", "7", "8", "9"}

\* the character U+0060, the delimiter of template literals and raw strings
Backtick == "<backtick>"

\* is the atom c a single character
IsChar(c) == Len(c) = 1 \/ c = Backtick

\* \s of a JavaScript regular expression, for the characters the model uses
IsSpace(c) == c \in {" ", "\n", "\t"}

\* the language tags whose obfuscate() the model executes
ModelledTags == {"javascript", "php", "ruby", "generic", "bash", "sql", "go", "python"}

\* the text before and after the index in a placeholder, as each handler spells it
PlaceholderAffix(tag) ==
    CASE tag = "javascript" -> << <<"_", "_", "J", "S", "S", "T", "R">>, <<"_", "_">> >>
      [] tag = "php" -> << <<"_", "_", "P", "H", "P", "S", "T", "R">>, <<"_", "_">> >>
      [] tag = "ruby" ->
            << <<"_", "_", "_", "R", "B", "S", "T", "R", "_">>,
               <<"_", "P", "L", "A", "C", "E", "H", "O", "L", "D", "E", "R", "_", "_", "_">> >>
      [] tag = "bash" ->
            << <<"_", "_", "_", "B", "A", "S", "H", "S", "T", "R", "_">>,
               <<"_", "P", "L", "A", "C", "E", "H", "O", "L", "D", "E", "R", "_", "_", "_">> >>
      [] tag = "sql" -> << <<"_", "_", "_", "S", "Q", "L", "S", "T", "R", "_">>, <<"_", "_", "_">> >>
      [] tag = "go" -> << <<"_", "_", "G", "O", "S", "T", "R">>, <<"_", "_">> >>
      [] tag = "python" -> << <<"_", "_", "P", "Y", "S", "T", "R">>, <<"_", "_">> >>
      [] OTHER -> << <<"_", "_", "_", "G", "E", "N", "S", "T", "R", "_">>, <<"_", "_", "_">> >>

\* Array.prototype.join('') on a list of atoms: the string they spell
RECURSIVE Join(_)
Join(s) ==
    IF s = <<>> THEN ""
    ELSE IF Len(s) = 1 THEN s[1]
    ELSE Join(SubSeq(s, 1, Len(s) \div 2)) \o Join(SubSeq(s, (Len(s) \div 2) + 1, Len(s)))

\* the placeholder of literal number idx, one atom
Placeholder(tag, idx) ==
    Join(PlaceholderAffix(tag)[1]) \o ToString(idx) \o Join(PlaceholderAffix(tag)[2])

\* the indexes a call of the model can give to a literal
PlaceholderIndexes == 0..(2 * MaxFragments)

\* every placeholder a call of the model can create
PlaceholderTokens == {Placeholder(t, i) : t \in ModelledTags, i \in PlaceholderIndexes}

\* the names the random source of JavaScriptObfuscator.generateConfusingName can
\* return in the model: two, so that two calls may or may not return the same
JsNames == {"_0xOOIl1a2b", "_O0lI1I3c4d"}

\* '_' + generateConfusingName() of the PHP and Ruby handlers
SigilNames == {"_O0Il1_O0ab12", "_lI10O_I1cd34"}

\* the random part of GenericObfuscator.generateObfuscatedName, before the counter
GenericStems == {"_OoIl10", "_lIo01O"}

\* the random part of SqlObfuscator.generateObfuscatedName, before the counter
SqlStems == {"qzxv", "kjwp"}

\* the random part of HtmlObfuscator.generateObfuscatedName, before the counter
HtmlStems == {"OoIl10", "lI01oO"}

\* the random part of CssObfuscator.generateObfuscatedName, before the counter
CssStems == {"OoIl10", "lI01oO"}

\* a session of CssObfuscator numbers the names of its selectors and of up to
\* six junk rules per call
NameTokens ==
    JsNames \cup SigilNames
    \cup {st \o ToString(k) : st \in GenericStems \cup SqlStems \cup HtmlStems,
                              k \in 1..(2 * MaxFragments)}
    \cup {st \o ToString(k) : st \in CssStems, k \in 1..(10 * MaxFragments)}

\* n copies of the string c, as one string
RECURSIVE Repeat(_, _)
Repeat(c, n) ==
    IF n = 0 THEN ""
    ELSE IF n = 1 THEN c
    ELSE LET half == Repeat(c, n \div 2)
         IN half \o half \o (IF n % 2 = 1 THEN c ELSE "")

\* content.length < 100: the longest content the restoration loops encode is one
\* character shorter than this
EncodeLimit == 100

\* a run of EncodeLimit letters, kept as one atom, and what the encoders make of
\* it: each maps a unit of the run to the characters of its encoding
RunUnits ==
    [a |-> <<"a">>,
     hex |-> <<"\\", "x", "6", "1">>,
     unicode |-> <<"\\", "u", "0", "0", "6", "1">>,
     hexhex |-> <<"\\", "x", "5", "c", "\\", "x", "7", "8", "\\", "x", "3", "6", "\\", "x", "3", "1">>,
     hexunicode |-> <<"\\", "x", "5", "c", "\\", "x", "7", "5", "\\", "x", "3", "0", "\\", "x", "3", "0",
                     "\\", "x", "3", "6", "\\", "x", "3", "1">>]

Run(kind) == Repeat(Join(RunUnits[kind]), EncodeLimit)

LongRun == Run("a")

RunAtoms == {Run(k) : k \in DOMAIN RunUnits}

\* the atoms that consist of word characters only
WordTokens == PlaceholderTokens \cup NameTokens \cup {LongRun}

\* \w
IsWordChar(c) ==
    IF IsChar(c) THEN c \in LowerLetters \cup UpperLetters \cup Digits \cup {"_"}
    ELSE c \in WordTokens

\* [a-zA-Z_]
IdentStartChars == LowerLetters \cup UpperLetters \cup {"_"} \cup WordTokens
IsIdentStart(c) == c \in IdentStartChars

\* \b between position i-1 and position i of s
WordBoundary(s, i) ==
    LET before == i > 1 /\ i - 1 <= Len(s) /\ (IsWordChar(s[i - 1]) \/ s[i - 1] \in RunAtoms)
        after == i >= 1 /\ i <= Len(s) /\ IsWordChar(s[i])
    IN before # after

-----------------------------------------------------------------------------
(* String helpers of the JavaScript runtime.                               *)

\* the least and the greatest member of a non-empty set of positions
Least(S) == CHOOSE j \in S : \A k \in S : j <= k
Greatest(S) == CHOOSE j \in S : \A k \in S : j >= k

\* s.split('').map(F).join(''): the texts F makes of the atoms of s, joined;
\* computed by halves to keep the evaluation shallow
RECURSIVE FlatMap(_, _)
FlatMap(F(_), s) ==
    IF s = <<>> THEN <<>>
    ELSE IF Len(s) = 1 THEN F(s[1])
    ELSE FlatMap(F, SubSeq(s, 1, Len(s) \div 2)) \o FlatMap(F, SubSeq(s, (Len(s) \div 2) + 1, Len(s)))

\* a loop that applies Step to a state until the state has its `stop` field set
\* or n steps are done; computed by halves to keep the evaluation shallow
RECURSIVE Iterate(_, _, _)
Iterate(Step(_), st, n) ==
    IF n <= 0 \/ st.stop THEN st
    ELSE IF n = 1 THEN Step(st)
    ELSE LET half == Iterate(Step, st, n \div 2)
         IN IF half.stop THEN half ELSE Iterate(Step, half, n - (n \div 2))

\* SubSeq that is empty when the bounds cross
Between(s, from, to) == IF from > to THEN <<>> ELSE SubSeq(s, from, to)

\* one step of the search of a global regular expression: MatchAt(i) is the
\* position after the match that starts at i, or 0 when none starts there; the
\* search resumes after the match, one character further when the match is empty
ScanStep(MatchAt(_), last, st) ==
    IF st.i > last THEN [st EXCEPT !.stop = TRUE]
    ELSE LET e == MatchAt(st.i)
         IN IF e = 0 THEN [st EXCEPT !.i = st.i + 1]
            ELSE [st EXCEPT !.i = IF e > st.i THEN e ELSE st.i + 1,
                            !.found = Append(st.found, <<st.i, e>>)]

\* the matches of a global regular expression among the start positions 1..last,
\* left to right, each as <<start, position after the end>>
Matches(MatchAt(_), last) ==
    Iterate(LAMBDA st : ScanStep(MatchAt, last, st),
            [i |-> 1, found |-> <<>>, stop |-> FALSE], last + 1).found

\* s.replace(regex, ...) given the matches: the k-th match becomes Subst(k), the
\* text between the matches stays
Replace(s, found, Subst(_)) ==
    IF s = <<>> \/ found = <<>> THEN s
    ELSE LET gapStart(k) == IF k = 1 THEN 1 ELSE found[k - 1][2]
         IN FlatMap(LAMBDA k : Between(s, gapStart(k), found[k][1] - 1) \o Subst(k),
                    [k \in 1..Len(found) |-> k])
            \o Between(s, gapStart(Len(found) + 1), Len(s))

\* does the literal text lit occur in s at position i
StartsWithAt(s, i, lit) ==
    /\ i >= 1
    /\ i + Len(lit) - 1 <= Len(s)
    /\ \A k \in 1..Len(lit) : s[i + k - 1] = lit[k]

\* String.prototype.indexOf(lit, from), 1-based; 0 when lit does not occur
IndexOfFrom(s, lit, from) ==
    LET hits == {j \in from..(Len(s) - Len(lit) + 1) : StartsWithAt(s, j, lit)}
    IN IF hits = {} THEN 0 ELSE Least(hits)

IndexOf(s, lit) == IndexOfFrom(s, lit, 1)

\* String.prototype.substring(from - 1): the text from position `from` on
SliceFrom(s, from) == IF from > Len(s) THEN <<>> ELSE SubSeq(s, from, Len(s))

\* String.prototype.substring(0, to): the text before position to + 1
SliceTo(s, to) == IF to < 1 THEN <<>> ELSE SubSeq(s, 1, to)

\* String.prototype.trimEnd
TrimEnd(s) ==
    LET kept == {j \in 1..Len(s) : ~IsSpace(s[j])}
    IN IF kept = {} THEN <<>> ELSE SubSeq(s, 1, Greatest(kept))

\* String.prototype.trimStart
TrimStart(s) ==
    LET kept == {j \in 1..Len(s) : ~IsSpace(s[j])}
    IN IF kept = {} THEN <<>> ELSE SubSeq(s, Least(kept), Len(s))

\* String.prototype.trim
Trim(s) == TrimStart(TrimEnd(s))

\* String.prototype.split(sep) for a one-character separator
SplitOn(s, sep) ==
    LET found == Matches(LAMBDA i : IF s[i] = sep THEN i + 1 ELSE 0, Len(s))
    IN [k \in 1..(Len(found) + 1) |->
           Between(s, IF k = 1 THEN 1 ELSE found[k - 1][2],
                   IF k > Len(found) THEN Len(s) ELSE found[k][1] - 1)]

\* Array.prototype.join(sep) on a list of texts
JoinWith(parts, sep) ==
    FlatMap(LAMBDA k : (IF k = 1 THEN <<>> ELSE sep) \o parts[k], [k \in 1..Len(parts) |-> k])

\* the concatenation of a list of texts
Flatten(parts) == JoinWith(parts, <<>>)

\* number of occurrences of the character c in s
CountChar(s, c) == Cardinality({j \in 1..Len(s) : s[j] = c})

\* does the literal text lit occur in s
Contains(s, lit) == IndexOf(s, lit) # 0

\* content.length: the number of characters the atoms of s spell
RECURSIVE CharLength(_)
CharLength(s) ==
    IF s = <<>> THEN 0
    ELSE IF Len(s) = 1 THEN (IF IsChar(s[1]) THEN 1 ELSE Len(s[1]))
    ELSE CharLength(SubSeq(s, 1, Len(s) \div 2)) + CharLength(SubSeq(s, (Len(s) \div 2) + 1, Len(s)))

-----------------------------------------------------------------------------
(* Character codes and the encoders.                                       *)

\* the printable ASCII characters, in code order starting at 32
Ascii ==
    <<" ", "!", "\"", "#", "$", "%", "&", "'", "(", ")", "*", "+", ",", "-", ".", "/",
      "0", "1", "2", "3", "4", "5", "6", "7", "8", "9", ":", ";", "<", "=", ">", "?",
      "@", "A", "B", "C", "D", "E", "F", "G", "H", "I", "J", "K", "L", "M", "N", "O",
      "P", "Q", "R", "S", "T", "U", "V", "W", "X", "Y", "Z", "[", "\\", "]", "^", "_",
      Backtick, "a", "b", "c", "d", "e", "f", "g", "h", "i", "j", "k", "l", "m", "n", "o",
      "p", "q", "r", "s", "t", "u", "v", "w", "x", "y", "z", "{", "|", "}", "~">>

\* c.charCodeAt(0)
CharCode(c) ==
    CASE c = "\n" -> 10
      [] c = "\t" -> 9
      [] OTHER -> 31 + (CHOOSE i \in 1..Len(Ascii) : Ascii[i] = c)

HexDigits == <<"0", "1", "2", "3", "4", "5", "6", "7", "8", "9", "a", "b", "c", "d", "e", "f">>

\* n.toString(16).padStart(2, '0'), for a character code
Hex2(n) == <<HexDigits[(n \div 16) + 1], HexDigits[(n % 16) + 1]>>

\* n.toString(16).padStart(4, '0'), for a character code
Hex4(n) == <<"0", "0">> \o Hex2(n)

\* the encoding of one atom of a literal's content: a run is encoded unit by
\* unit and stays one atom, a placeholder or a name is encoded letter by letter
\* '\\x' + code.toString(16).padStart(2, '0')
HexEscape(c) == <<"\\", "x">> \o Hex2(CharCode(c))

\* '\\u' + code.toString(16).padStart(4, '0')
UnicodeEscape(c) == <<"\\", "u">> \o Hex4(CharCode(c))

\* the characters an atom spells
Spell(c) ==
    IF IsChar(c) THEN <<c>>
    ELSE IF c \in PlaceholderTokens
    THEN LET k == CHOOSE k \in ModelledTags \X PlaceholderIndexes : Placeholder(k[1], k[2]) = c
         IN PlaceholderAffix(k[1])[1] \o <<ToString(k[2])>> \o PlaceholderAffix(k[1])[2]
    ELSE IF c \in RunAtoms
    THEN LET unit == RunUnits[CHOOSE k \in DOMAIN RunUnits : Run(k) = c]
         IN [k \in 1..(Len(unit) * EncodeLimit) |-> unit[((k - 1) % Len(unit)) + 1]]
    ELSE <<c>>

\* the run atom that the encoding of the run atom c is
RunEncoded(c, how) ==
    CASE c = Run("a") /\ how = "hex" -> Run("hex")
      [] c = Run("a") /\ how = "unicode" -> Run("unicode")
      [] c = Run("hex") /\ how = "hex" -> Run("hexhex")
      [] c = Run("unicode") /\ how = "hex" -> Run("hexunicode")

\* content.split('').map(c => '\\x' + hex(c)).join('')
HexAll(s) ==
    FlatMap(LAMBDA c : IF c \in RunAtoms THEN <<RunEncoded(c, "hex")>>
                       ELSE FlatMap(HexEscape, Spell(c)), s)

\* content.split('').map(c => '\\u' + hex(c)).join('')
UnicodeAll(s) ==
    FlatMap(LAMBDA c : IF c \in RunAtoms THEN <<RunEncoded(c, "unicode")>>
                       ELSE FlatMap(UnicodeEscape, Spell(c)), s)

\* code < 128 && code > 31
IsPrintable(c) == ~IsChar(c) \/ (CharCode(c) < 128 /\ CharCode(c) > 31)

\* the map() of JavaScriptObfuscator's restoration loop: only printable ASCII
\* is escaped
HexPrintable(s) == FlatMap(LAMBDA c : IF IsPrintable(c) THEN HexAll(<<c>>) ELSE <<c>>, s)

UnicodePrintable(s) == FlatMap(LAMBDA c : IF IsPrintable(c) THEN UnicodeAll(<<c>>) ELSE <<c>>, s)

-----------------------------------------------------------------------------
(* Options and the factory.                                                *)

OptionFields == {"renameVariables", "encodeStrings", "removeComments",
                 "controlFlowFlattening", "deadCodeInjection", "unicodeEscape",
                 "hexEncoding", "base64Strings", "shuffleCode", "minify", "intensity"}

Intensities == {"low", "medium", "high", "extreme"}

defaultOptions ==
    [renameVariables |-> TRUE, encodeStrings |-> TRUE, removeComments |-> TRUE,
     controlFlowFlattening |-> TRUE, deadCodeInjection |-> TRUE, unicodeEscape |-> TRUE,
     hexEncoding |-> TRUE, base64Strings |-> FALSE, shuffleCode |-> TRUE,
     minify |-> FALSE, intensity |-> "high"]

\* { ...defaultOptions, ...options }
MergeOptions(over) ==
    [f \in OptionFields |-> IF f \in DOMAIN over THEN over[f] ELSE defaultOptions[f]]

\* the own properties of the object literal `map` of createObfuscator
HandlerTable ==
    [javascript |-> "JavaScriptObfuscator", python |-> "PythonObfuscator",
     java |-> "JavaObfuscator", cpp |-> "CppObfuscator", csharp |-> "CSharpObfuscator",
     go |-> "GoObfuscator", php |-> "PhpObfuscator", ruby |-> "RubyObfuscator",
     rust |-> "RustObfuscator", powershell |-> "PowerShellObfuscator",
     bash |-> "BashObfuscator", lua |-> "LuaObfuscator", perl |-> "PerlObfuscator",
     scala |-> "ScalaObfuscator", dart |-> "DartObfuscator", groovy |-> "GroovyObfuscator",
     sql |-> "SqlObfuscator", html |-> "HtmlObfuscator", css |-> "CssObfuscator"]

\* `map` is an object literal, so map[language] also finds what the literal
\* inherits from Object.prototype: the function Object under "constructor",
\* and built-in methods, which are functions but not constructors
InheritedConstructor == {"constructor"}
InheritedMethods == {"toString", "valueOf", "hasOwnProperty", "isPrototypeOf",
                     "propertyIsEnumerable", "toLocaleString"}

\* map[language] || GenericObfuscator
LookupCtor(tag) ==
    IF tag \in DOMAIN HandlerTable THEN HandlerTable[tag]
    ELSE IF tag \in InheritedConstructor THEN "Object"
    ELSE IF tag \in InheritedMethods THEN "builtin method"
    ELSE "GenericObfuscator"

\* new Ctor(opts): a handler instance; new Object(opts) is opts itself; a
\* built-in method is not a constructor and `new` throws a TypeError
Construct(ctor) ==
    CASE ctor = "Object" -> "options record"
      [] ctor = "builtin method" -> "TypeError"
      [] OTHER -> ctor

createObfuscator(tag) == Construct(LookupCtor(tag))

HandlerClasses == {HandlerTable[t] : t \in DOMAIN HandlerTable} \cup {"GenericObfuscator"}

\* the tag whose pipeline a handler class runs
TagOf(h) ==
    IF h = "GenericObfuscator" THEN "generic"
    ELSE CHOOSE t \in DOMAIN HandlerTable : HandlerTable[t] = h

\* the stages of each obfuscate() method, in the order its statements run them
Stages(h) ==
    CASE h = "JavaScriptObfuscator" ->
            <<"comments", "extract", "rename", "restore", "deadcode", "minify">>
      [] h = "PhpObfuscator" ->
            <<"comments", "extract", "rename", "restore", "deadcode", "minify">>
      [] h = "RubyObfuscator" ->
            <<"extract", "comments", "rename", "deadcode", "minify", "restore">>
      [] h = "GenericObfuscator" ->
            <<"extract", "comments", "rename", "restore", "minify">>
      [] h = "BashObfuscator" ->
            <<"extract", "comments", "rename", "deadcode", "minify", "restore">>
      [] h = "SqlObfuscator" ->
            <<"extract", "comments", "aliases", "keywords", "restore", "padding", "minify">>
      [] h = "HtmlObfuscator" ->
            <<"comments", "classes", "entities", "styles", "scripts", "minify">>
      [] h = "GoObfuscator" ->
            <<"comments", "extract", "rename", "restore", "deadcode", "minify">>
      [] h = "PythonObfuscator" ->
            <<"comments", "extract", "rename", "restore", "deadcode", "minify">>
      [] h = "CssObfuscator" ->
            <<"comments", "selectors", "colors", "minify", "junk">>
      [] OTHER -> <<>>

-----------------------------------------------------------------------------
(* Literal extraction: the replace() calls that fill `strings`.            *)

\* q(?:[^q\\]|\\.)*q  scanned from position j, just after the opening quote:
\* the position after the closing quote, or 0 when the pattern does not match.
\* The two alternatives start with different characters, so the scan is the
\* only way the pattern can match.
EscapedStep(s, q, st) ==
    IF st.j > Len(s) THEN [st EXCEPT !.stop = TRUE]
    ELSE IF s[st.j] = q THEN [st EXCEPT !.end = st.j + 1, !.stop = TRUE]
    ELSE IF s[st.j] = "\\"
         THEN IF st.j + 1 <= Len(s) /\ s[st.j + 1] # "\n"
              THEN [st EXCEPT !.j = st.j + 2] ELSE [st EXCEPT !.stop = TRUE]
    ELSE [st EXCEPT !.j = st.j + 1]

EscapedEnd(s, j, q) ==
    Iterate(LAMBDA st : EscapedStep(s, q, st), [j |-> j, end |-> 0, stop |-> FALSE],
            Len(s) + 1).end

\* qqq[\s\S]*?qqq  scanned from position j, just after the opening quotes
TripleEnd(s, j, q) ==
    LET k == IndexOfFrom(s, <<q, q, q>>, j)
    IN IF k = 0 THEN 0 ELSE k + 3

\* q(?:[^q\\]|\\.|qq)*q  of SqlObfuscator, scanned from position j just after the
\* opening quote: a doubled quote goes on with the literal when a closing quote
\* follows later, and closes it otherwise
RECURSIVE DoubledEnd(_, _, _)
DoubledEnd(s, j, q) ==
    IF j > Len(s) THEN 0
    ELSE IF s[j] = "\\"
         THEN IF j + 1 <= Len(s) /\ s[j + 1] # "\n" THEN DoubledEnd(s, j + 2, q) ELSE 0
    ELSE IF s[j] = q
         THEN IF j + 1 <= Len(s) /\ s[j + 1] = q /\ DoubledEnd(s, j + 2, q) # 0
              THEN DoubledEnd(s, j + 2, q) ELSE j + 1
    ELSE DoubledEnd(s, j + 1, q)

\* (?:[^'"\\\n]|\\.)*q  of PythonObfuscator, scanned from position j just after
\* the opening quote q: the literal ends at the first quote of either kind, and
\* only when that quote is q
PyQuotedStep(s, q, st) ==
    IF st.j > Len(s) THEN [st EXCEPT !.stop = TRUE]
    ELSE IF s[st.j] = q THEN [st EXCEPT !.end = st.j + 1, !.stop = TRUE]
    ELSE IF s[st.j] \in {"'", "\"", "\n"} THEN [st EXCEPT !.stop = TRUE]
    ELSE IF s[st.j] = "\\"
         THEN IF st.j + 1 <= Len(s) /\ s[st.j + 1] # "\n"
              THEN [st EXCEPT !.j = st.j + 2] ELSE [st EXCEPT !.stop = TRUE]
    ELSE [st EXCEPT !.j = st.j + 1]

PyQuotedEnd(s, j, q) ==
    Iterate(LAMBDA st : PyQuotedStep(s, q, st), [j |-> j, end |-> 0, stop |-> FALSE],
            Len(s) + 1).end

\* where a match of the literal pattern pat that starts at position i ends
\* (the position after it), or 0
MatchEnd(pat, s, i) ==
    CASE pat.kind = "escaped" ->
            IF s[i] = pat.q THEN EscapedEnd(s, i + 1, pat.q) ELSE 0
      [] pat.kind = "triple" ->
            IF StartsWithAt(s, i, <<pat.q, pat.q, pat.q>>) THEN TripleEnd(s, i + 3, pat.q) ELSE 0
      [] pat.kind = "doubled" ->
            IF s[i] = pat.q THEN DoubledEnd(s, i + 1, pat.q) ELSE 0
      [] pat.kind = "pyquoted" ->
            IF s[i] = pat.q THEN PyQuotedEnd(s, i + 1, pat.q) ELSE 0
      [] pat.kind = "pyformatted" ->
            IF StartsWithAt(s, i, <<"f", pat.q>>) THEN PyQuotedEnd(s, i + 2, pat.q) ELSE 0
      [] pat.kind = "plain" ->
            IF s[i] = pat.q /\ IndexOfFrom(s, <<pat.q>>, i + 1) # 0
            THEN IndexOfFrom(s, <<pat.q>>, i + 1) + 1 ELSE 0

Escaped(q) == [kind |-> "escaped", q |-> q]
Triple(q) == [kind |-> "triple", q |-> q]

\* q[^q]*q, the single-quoted pattern of BashObfuscator
Plain(q) == [kind |-> "plain", q |-> q]

\* the single-quoted pattern of SqlObfuscator
Doubled(q) == [kind |-> "doubled", q |-> q]

\* (['"])(?:[^'"\\\n]|\\.)*\1  of PythonObfuscator for one quote, and the same
\* after an f
PyQuoted(q) == [kind |-> "pyquoted", q |-> q]
PyFormatted(q) == [kind |-> "pyformatted", q |-> q]

\* the first alternative of the pass that matches at i, as <<end, pattern>>
RECURSIVE FirstMatch(_, _, _)
FirstMatch(pats, s, i) ==
    IF pats = <<>> THEN <<0, Escaped("")>>
    ELSE IF MatchEnd(pats[1], s, i) # 0 THEN <<MatchEnd(pats[1], s, i), pats[1]>>
    ELSE FirstMatch(Tail(pats), s, i)

\* the `quote` an entry of GenericObfuscator records
QuoteOf(pat) == IF pat.kind = "triple" THEN <<pat.q, pat.q, pat.q>> ELSE <<pat.q>>

\* result.replace(/pattern/g, callback): every match, left to right, becomes the
\* next placeholder and an entry of the table
ExtractPass(tag, pats, s, table) ==
    LET found == Matches(LAMBDA i : FirstMatch(pats, s, i)[1], Len(s))
        ph(k) == Placeholder(tag, Len(table) + k - 1)
    IN [text |-> Replace(s, found, LAMBDA k : <<ph(k)>>),
        table |-> table \o [k \in 1..Len(found) |->
                               [original |-> SubSeq(s, found[k][1], found[k][2] - 1),
                                placeholder |-> ph(k),
                                quote |-> QuoteOf(FirstMatch(pats, s, found[k][1])[2])]]]

\* the successive replace() calls of one handler, each a list of alternatives
ExtractPasses(tag) ==
    CASE tag = "javascript" -> << <<Escaped(Backtick)>>, <<Escaped("\""), Escaped("'")>> >>
      [] tag = "php" -> << <<Escaped("\""), Escaped("'")>> >>
      [] tag = "ruby" -> << <<Escaped("'")>>, <<Escaped("\"")>> >>
      [] tag = "generic" -> << <<Triple("\""), Triple("'")>>, <<Escaped(Backtick)>>,
                              <<Escaped("\"")>>, <<Escaped("'")>> >>
      [] tag = "bash" -> << <<Plain("'")>>, <<Escaped("\"")>> >>
      [] tag = "sql" -> << <<Doubled("'")>>, <<Escaped("\"")>> >>
      [] tag = "go" -> << <<Plain(Backtick)>>, <<Escaped("\"")>> >>
      [] tag = "python" -> << <<PyFormatted("'"), PyFormatted("\"")>>,
                             <<PyQuoted("'"), PyQuoted("\"")>> >>

RECURSIVE ExtractAll(_, _, _, _)
ExtractAll(tag, passes, text, table) ==
    IF passes = <<>> THEN [text |-> text, table |-> table]
    ELSE LET r == ExtractPass(tag, passes[1], text, table)
         IN ExtractAll(tag, Tail(passes), r.text, r.table)

\* the extraction step of obfuscate(): the protected text and the table
Extract(tag, text) == ExtractAll(tag, ExtractPasses(tag), text, <<>>)
-----------------------------------------------------------------------------
(* Comment removal.                                                        *)

\* one line of removeSingleLineComments: cut at the first marker when the
\* numbers of ' and of " before it are both even
StripLineComment(line, commentChar) ==
    LET idx == IndexOf(line, commentChar)
        beforeComment == SliceTo(line, idx - 1)
    IN IF idx # 0 /\ CountChar(beforeComment, "'") % 2 = 0
                  /\ CountChar(beforeComment, "\"") % 2 = 0
       THEN TrimEnd(beforeComment)
       ELSE line

\* lines.map(...) of removeSingleLineComments
StripLines(lines, commentChar) ==
    [k \in 1..Len(lines) |-> StripLineComment(lines[k], commentChar)]

\* .filter(line => line.trim() !== '')
NonBlank(lines) == SelectSeq(lines, LAMBDA l : Trim(l) # <<>>)

\* BaseObfuscator.removeSingleLineComments
removeSingleLineComments(text, commentChar) ==
    JoinWith(NonBlank(StripLines(SplitOn(text, "\n"), commentChar)), <<"\n">>)

\* BaseObfuscator.removeMultiLineComments: the loop runs while a start marker
\* is left that has an end marker at or after it
RECURSIVE removeMultiLineComments(_, _, _)
removeMultiLineComments(text, start, end) ==
    LET startIdx == IndexOf(text, start)
        endIdx == IndexOfFrom(text, end, startIdx)
    IN IF startIdx = 0 \/ endIdx = 0 THEN text
       ELSE removeMultiLineComments(
                SliceTo(text, startIdx - 1) \o SliceFrom(text, endIdx + Len(end)), start, end)

\* the position of the next line feed at or after i, or Len(s) + 1
LineEnd(s, i) ==
    LET k == IndexOfFrom(s, <<"\n">>, i)
    IN IF k = 0 THEN (IF i > Len(s) THEN i ELSE Len(s) + 1) ELSE k

\* s.replace(/marker[^\n]*/g, ''), also /marker.*$/gm
RemoveToLineEnd(s, marker) ==
    Replace(s, Matches(LAMBDA i : IF StartsWithAt(s, i, marker) THEN LineEnd(s, i) ELSE 0, Len(s)),
            LAMBDA k : <<>>)

\* s.replace(/start[\s\S]*?end/g, '')
DelimitedEnd(s, start, end, i) ==
    LET k == IF StartsWithAt(s, i, start) THEN IndexOfFrom(s, end, i + Len(start)) ELSE 0
    IN IF k = 0 THEN 0 ELSE k + Len(end)

RemoveDelimited(s, start, end) ==
    Replace(s, Matches(LAMBDA i : DelimitedEnd(s, start, end, i), Len(s)), LAMBDA k : <<>>)

\* s.replace(/(?<![_a-zA-Z0-9])#(?!{)[^\n]*/g, '')  of RubyObfuscator
RubyCommentEnd(s, i) ==
    IF /\ s[i] = "#"
       /\ ~(i > 1 /\ IsWordChar(s[i - 1]))
       /\ ~(i < Len(s) /\ s[i + 1] = "{")
    THEN LineEnd(s, i) ELSE 0

RemoveRubyComments(s) ==
    Replace(s, Matches(LAMBDA i : RubyCommentEnd(s, i), Len(s)), LAMBDA k : <<>>)

\* s.replace(/(?<![_a-zA-Z0-9])#[^\n]*/g, '')  of BashObfuscator
BashCommentEnd(s, i) ==
    IF s[i] = "#" /\ ~(i > 1 /\ IsWordChar(s[i - 1])) THEN LineEnd(s, i) ELSE 0

RemoveBashComments(s) ==
    Replace(s, Matches(LAMBDA i : BashCommentEnd(s, i), Len(s)), LAMBDA k : <<>>)

\* the comment step of each obfuscate(), taken when options.removeComments
RemoveComments(tag, text) ==
    CASE tag \in {"javascript", "go"} ->
            removeSingleLineComments(
                removeMultiLineComments(text, <<"/", "*">>, <<"*", "/">>), <<"/", "/">>)
      [] tag = "php" ->
            removeSingleLineComments(
                removeSingleLineComments(
                    removeMultiLineComments(text, <<"/", "*">>, <<"*", "/">>), <<"/", "/">>),
                <<"#">>)
      [] tag = "python" ->
            removeSingleLineComments(
                RemoveDelimited(RemoveDelimited(text, <<"'", "'", "'">>, <<"'", "'", "'">>),
                                <<"\"", "\"", "\"">>, <<"\"", "\"", "\"">>),
                <<"#">>)
      [] tag = "ruby" ->
            RemoveDelimited(RemoveRubyComments(text),
                            <<"=", "b", "e", "g", "i", "n">>, <<"=", "e", "n", "d">>)
      [] tag = "generic" ->
            LET c1 == RemoveDelimited(text, <<"/", "*">>, <<"*", "/">>)
                c2 == RemoveToLineEnd(c1, <<"/", "/">>)
                c3 == RemoveToLineEnd(c2, <<"#">>)
                c4 == RemoveToLineEnd(c3, <<"-", "-">>)
            IN RemoveDelimited(c4, <<"<", "!", "-", "-">>, <<"-", "-", ">">>)
      [] tag = "bash" -> RemoveBashComments(text)
      [] tag = "html" -> RemoveDelimited(text, <<"<", "!", "-", "-">>, <<"-", "-", ">">>)
      [] tag = "css" -> RemoveDelimited(text, <<"/", "*">>, <<"*", "/">>)
      [] tag = "sql" ->
            RemoveToLineEnd(
                RemoveToLineEnd(RemoveDelimited(text, <<"/", "*">>, <<"*", "/">>), <<"-", "-">>),
                <<"#">>)
-----------------------------------------------------------------------------
(* new RegExp('\\b' + name + '\\b', 'g') and the replace() that uses it.     *)

\* [a-zA-Z0-9_]
WordChars == LowerLetters \cup UpperLetters \cup Digits \cup {"_"} \cup WordTokens

\* the position after the longest run of atoms of the set chars that starts at i
RunEnd(s, i, chars) ==
    IF i > Len(s) THEN i
    ELSE Least({j \in i..(Len(s) + 1) : j > Len(s) \/ s[j] \notin chars})

\* the position after the white space that starts at i
SkipSpaces(s, i) == RunEnd(s, i, {" ", "\n", "\t"})

\* the characters of a name that a regular expression reads as syntax and the
\* model interprets; every other character of a name stands for itself
\*   (  opens a group, which nothing in a name closes: the pattern is invalid
\*   [  opens a class, which needs a ] after it
\*   $  asserts the end of the text
\*   .  is any character but a line feed
\*   ?  makes the item before it optional; there must be such an item
RegexItems(name) ==
    [k \in 1..Len(name) |->
        [kind |-> CASE name[k] = "$" -> "end"
                    [] name[k] = "." -> "any"
                    [] name[k] = "?" -> "optional"
                    [] OTHER -> "literal",
         ch |-> name[k]]]

\* does new RegExp throw a SyntaxError for this name
InvalidPattern(name) ==
    \/ \E k \in 1..Len(name) : name[k] = "("
    \/ \E k \in 1..Len(name) : name[k] = "[" /\ \A j \in (k + 1)..Len(name) : name[j] # "]"
    \/ \E k \in 1..Len(name) :
            /\ name[k] = "?"
            /\ (k = 1 \/ name[k - 1] = "$" \/ (k > 2 /\ name[k - 1] = "?" /\ name[k - 2] = "?"))

\* the end of the first match, in the engine's order of trying, of the items
\* from number k on followed by \b, at position i; 0 when there is none
RECURSIVE MatchItems(_, _, _, _)
MatchItems(items, k, s, i) ==
    IF k > Len(items) THEN (IF WordBoundary(s, i) THEN i ELSE 0)
    ELSE LET it == items[k]
             optional == k < Len(items) /\ items[k + 1].kind = "optional"
             next == IF optional THEN k + 2 ELSE k + 1
             take == CASE it.kind = "end" ->
                            IF i = Len(s) + 1 THEN MatchItems(items, next, s, i) ELSE 0
                       [] it.kind = "any" ->
                            IF i <= Len(s) /\ IsChar(s[i]) /\ s[i] # "\n"
                            THEN MatchItems(items, next, s, i + 1) ELSE 0
                       [] OTHER ->
                            IF i <= Len(s) /\ s[i] = it.ch
                            THEN MatchItems(items, next, s, i + 1) ELSE 0
         IN IF optional /\ take = 0 THEN MatchItems(items, next, s, i) ELSE take

\* the end of the match of \bname\b at position i, or 0
MatchName(name, s, i) ==
    IF WordBoundary(s, i) THEN MatchItems(RegexItems(name), 1, s, i) ELSE 0

\* s.replace(new RegExp('\\b' + name + '\\b', 'g'), newName), for a valid pattern;
\* after an empty match the search resumes one character further
ReplaceName(s, name, newName) ==
    Replace(s, Matches(LAMBDA i : MatchName(name, s, i), Len(s) + 1), LAMBDA k : <<newName>>)

\* varMap.forEach((newName, oldName) => result = result.replace(regex, newName)):
\* the text after the loop, or the exception that ends it
RECURSIVE ReplaceNames(_, _)
ReplaceNames(s, map) ==
    IF map = <<>> THEN [threw |-> FALSE, text |-> s]
    ELSE IF InvalidPattern(map[1].oldName) THEN [threw |-> TRUE, text |-> s]
    ELSE ReplaceNames(ReplaceName(s, map[1].oldName, map[1].newName), Tail(map))

-----------------------------------------------------------------------------
(* JavaScriptObfuscator.renameIdentifiers.                                 *)

\* the position after  :\s*\w+(\[\])?\s*  when it matches at i, or 0
TypeAnnotationEnd(s, i) ==
    IF i > Len(s) \/ s[i] # ":" THEN 0
    ELSE LET j == SkipSpaces(s, i + 1)
             k == RunEnd(s, j, WordChars)
             b == IF StartsWithAt(s, k, <<"[", "]">>) THEN k + 2 ELSE k
         IN IF k = j THEN 0 ELSE SkipSpaces(s, b)

\* s.replace(/:\s*\w+(\[\])?\s*(?=[,)=])/g, '')
ParamTypeEnd(s, i) ==
    LET e == TypeAnnotationEnd(s, i)
    IN IF e # 0 /\ e <= Len(s) /\ s[e] \in {",", ")", "="} THEN e ELSE 0

StripParamTypes(s) ==
    Replace(s, Matches(LAMBDA i : ParamTypeEnd(s, i), Len(s)), LAMBDA k : <<>>)

\* s.replace(/\)\s*:\s*\w+(\[\])?\s*\{/g, ') {')
ReturnTypeEnd(s, i) ==
    LET e == IF s[i] = ")" THEN TypeAnnotationEnd(s, SkipSpaces(s, i + 1)) ELSE 0
    IN IF e # 0 /\ e <= Len(s) /\ s[e] = "{" THEN e + 1 ELSE 0

StripReturnTypes(s) ==
    Replace(s, Matches(LAMBDA i : ReturnTypeEnd(s, i), Len(s)), LAMBDA k : <<")", " ", "{">>)

\* s.replace(/:\s*\w+(\[\])?\s*=/g, ' =')
VarTypeEnd(s, i) ==
    LET e == TypeAnnotationEnd(s, i)
    IN IF e # 0 /\ e <= Len(s) /\ s[e] = "=" THEN e + 1 ELSE 0

StripVarTypes(s) ==
    Replace(s, Matches(LAMBDA i : VarTypeEnd(s, i), Len(s)), LAMBDA k : <<" ", "=">>)

\* the three replace() calls that strip TypeScript annotations
StripTypes(s) ==
    StripVarTypes(StripReturnTypes(StripParamTypes(s)))

\* the keyword of the set keywords that is spelled at position i and followed by
\* white space, as a set of at most one element
KeywordAt(s, i, keywords) ==
    {kw \in keywords : StartsWithAt(s, i, kw) /\ SkipSpaces(s, i + Len(kw)) > i + Len(kw)}

\* /\b(keywords)\s+([first][rest]*)/g  at position i: where the captured name
\* starts and where the match ends, or <<0, 0>>
\* (ks is s, or s in lower case when the pattern has the flag i)
DeclarationAt(s, ks, i, keywords, first, rest) ==
    LET kws == IF WordBoundary(s, i) THEN KeywordAt(ks, i, keywords) ELSE {}
        kw == CHOOSE k \in kws : TRUE
        n == SkipSpaces(s, i + Len(kw))
    IN IF kws # {} /\ n <= Len(s) /\ s[n] \in first
       THEN <<n, RunEnd(s, n + 1, rest)>>
       ELSE <<0, 0>>

\* the names the pattern captures, in order
DeclaredNames(s, ks, keywords, first, rest) ==
    LET found == Matches(LAMBDA i : DeclarationAt(s, ks, i, keywords, first, rest)[2], Len(s))
    IN [k \in 1..Len(found) |->
           SubSeq(s, DeclarationAt(s, ks, found[k][1], keywords, first, rest)[1],
                  found[k][2] - 1)]

\* [a-zA-Z_$]  and  [a-zA-Z0-9_$]
JsNameStart == LowerLetters \cup UpperLetters \cup {"_", "$"} \cup WordTokens
JsNameChars == WordChars \cup {"$"}

\* [a-zA-Z_$] has no digit, so of the longer atoms only the run of letters fits
JsFunctionNameChars == LowerLetters \cup UpperLetters \cup {"_", "$", LongRun}

JsDeclKeywords ==
    {<<"v", "a", "r">>, <<"l", "e", "t">>, <<"c", "o", "n", "s", "t">>,
     <<"f", "u", "n", "c", "t", "i", "o", "n">>}

\* /function\s*[a-zA-Z_$]*\s*\(([^)]*)\)/g  at position i: where the parenthesis
\* opens and where it closes, or <<0, 0>>
FunctionParamsAt(s, i) ==
    LET open == IF StartsWithAt(s, i, <<"f", "u", "n", "c", "t", "i", "o", "n">>)
                THEN SkipSpaces(s, RunEnd(s, SkipSpaces(s, i + 8), JsFunctionNameChars))
                ELSE 0
        close == IF open # 0 /\ open <= Len(s) /\ s[open] = "("
                 THEN IndexOfFrom(s, <<")">>, open + 1) ELSE 0
    IN IF close # 0 THEN <<open, close>> ELSE <<0, 0>>

\* the parameter lists the pattern captures, in order
FunctionParamLists(s) ==
    LET found == Matches(LAMBDA i : LET m == FunctionParamsAt(s, i)
                                    IN IF m[2] = 0 THEN 0 ELSE m[2] + 1, Len(s))
    IN [k \in 1..Len(found) |->
           Between(s, FunctionParamsAt(s, found[k][1])[1] + 1, found[k][2] - 2)]

\* /\(([^)]*)\)\s*=>/g  at position i: where the parenthesis closes and where
\* the match ends, or <<0, 0>>
ArrowParamsAt(s, i) ==
    LET close == IF s[i] = "(" THEN IndexOfFrom(s, <<")">>, i + 1) ELSE 0
        arrow == IF close # 0 THEN SkipSpaces(s, close + 1) ELSE 0
    IN IF close # 0 /\ StartsWithAt(s, arrow, <<"=", ">">>) THEN <<close, arrow + 2>> ELSE <<0, 0>>

\* the parameter lists the pattern captures, in order
ArrowParamLists(s) ==
    LET found == Matches(LAMBDA i : ArrowParamsAt(s, i)[2], Len(s))
    IN [k \in 1..Len(found) |->
           Between(s, found[k][1] + 1, ArrowParamsAt(s, found[k][1])[1] - 1)]

\* match[1].split(',').map(p => p.trim().split('=')[0].trim())
ParamNames(list) ==
    LET parts == SplitOn(list, ",")
    IN [k \in 1..Len(parts) |-> Trim(SplitOn(Trim(parts[k]), "=")[1])]

\* the parameter names of several parameter lists, in order
AllParamNames(lists) == FlatMap(ParamNames, lists)

-----------------------------------------------------------------------------
(* The reserved-word sets and the discovery of names.                      *)

\* JavaScriptObfuscator.reserved
JsReserved ==
    {"break", "case", "catch", "continue", "debugger", "default", "delete", "do",
     "else", "finally", "for", "function", "if", "in", "instanceof", "new", "return",
     "switch", "this", "throw", "try", "typeof", "var", "void", "while", "with",
     "class", "const", "enum", "export", "extends", "import", "super", "implements",
     "interface", "let", "package", "private", "protected", "public", "static",
     "yield", "true", "false", "null", "undefined", "NaN", "Infinity", "console",
     "window", "document", "Math", "JSON", "Array", "Object", "String", "Number",
     "Boolean", "Date", "RegExp", "Error", "Promise", "Map", "Set", "Symbol",
     "arguments", "eval", "async", "await", "of", "atob", "btoa", "TextEncoder",
     "TextDecoder", "Uint8Array", "Function", "parseInt", "parseFloat", "isNaN",
     "isFinite", "decodeURI", "encodeURI", "decodeURIComponent", "encodeURIComponent",
     "escape", "unescape"}

\* PhpObfuscator.reserved
PhpReserved ==
    {"__halt_compiler", "abstract", "and", "array", "as", "break", "callable", "case",
     "catch", "class", "clone", "const", "continue", "declare", "default", "die", "do",
     "echo", "else", "elseif", "empty", "enddeclare", "endfor", "endforeach", "endif",
     "endswitch", "endwhile", "eval", "exit", "extends", "final", "finally", "fn",
     "for", "foreach", "function", "global", "goto", "if", "implements", "include",
     "include_once", "instanceof", "insteadof", "interface", "isset", "list", "match",
     "namespace", "new", "or", "print", "private", "protected", "public", "require",
     "require_once", "return", "static", "switch", "throw", "trait", "try", "unset",
     "use", "var", "while", "xor", "yield", "true", "false", "null", "$this", "$_GET",
     "$_POST", "$_SESSION", "$_SERVER", "$_REQUEST", "$_FILES", "$_ENV", "$_COOKIE",
     "self", "parent"}

\* RubyObfuscator.reserved
RubyReserved ==
    {"BEGIN", "END", "alias", "and", "begin", "break", "case", "class", "def",
     "defined?", "do", "else", "elsif", "end", "ensure", "false", "for", "if", "in",
     "module", "next", "nil", "not", "or", "redo", "rescue", "retry", "return", "self",
     "super", "then", "true", "undef", "unless", "until", "when", "while", "yield",
     "puts", "print", "gets", "require", "require_relative", "attr_accessor",
     "attr_reader", "attr_writer", "initialize", "new", "each", "map", "select",
     "reject", "reduce", "inject", "collect", "to_s", "to_i", "to_a", "chomp", "strip",
     "split", "join", "length", "size", "empty?", "include?"}

\* the set `reserved` of GenericObfuscator.renameIdentifiers
GenericReserved ==
    {"if", "else", "for", "while", "do", "switch", "case", "break", "continue",
     "return", "function", "def", "class", "struct", "enum", "interface", "trait",
     "type", "import", "export", "from", "require", "include", "use", "package",
     "module", "public", "private", "protected", "static", "final", "const", "var",
     "let", "val", "true", "false", "null", "nil", "none", "undefined", "void", "new",
     "this", "self", "super", "extends", "implements", "with", "try", "catch",
     "finally", "throw", "throws", "raise", "except", "async", "await", "yield",
     "lambda", "fn", "proc", "sub", "print", "println", "echo", "console", "log",
     "write", "read", "input", "output", "main", "init", "setup", "run", "start",
     "stop", "exit", "quit", "and", "or", "not", "in", "is", "as", "typeof",
     "instanceof"}

\* BashObfuscator.reserved
BashReserved ==
    {"if", "then", "else", "elif", "fi", "case", "esac", "for", "while", "until", "do",
     "done", "in", "function", "select", "time", "coproc", "echo", "printf", "read",
     "exit", "return", "break", "continue", "declare", "local", "export", "readonly",
     "unset", "shift", "set", "trap", "eval", "exec", "source", "true", "false"}

\* String.prototype.toLowerCase, atom by atom
LowerOf ==
    [A |-> "a", B |-> "b", C |-> "c", D |-> "d", E |-> "e", F |-> "f", G |-> "g",
     H |-> "h", I |-> "i", J |-> "j", K |-> "k", L |-> "l", M |-> "m", N |-> "n",
     O |-> "o", P |-> "p", Q |-> "q", R |-> "r", S |-> "s", T |-> "t", U |-> "u",
     V |-> "v", W |-> "w", X |-> "x", Y |-> "y", Z |-> "z"]

ToLower(s) == [k \in 1..Len(s) |-> IF s[k] \in UpperLetters THEN LowerOf[s[k]] ELSE s[k]]

\* the names  /\$([a-zA-Z_][a-zA-Z0-9_]*)/g  captures, in order
PhpVariableEnd(s, i) ==
    IF s[i] = "$" /\ i < Len(s) /\ IsIdentStart(s[i + 1]) THEN RunEnd(s, i + 1, WordChars) ELSE 0

PhpVariables(s) ==
    LET found == Matches(LAMBDA i : PhpVariableEnd(s, i), Len(s))
    IN [k \in 1..Len(found) |-> SubSeq(s, found[k][1] + 1, found[k][2] - 1)]

\* [a-z_]  and  [a-zA-Z0-9_?!]
RubyNameStart == LowerLetters \cup {"_"} \cup PlaceholderTokens \cup NameTokens \cup {LongRun}
RubyDefChars == WordChars \cup {"?", "!"}

\* the names  /\b([a-z_][a-zA-Z0-9_]*)\s*=/g  captures, in order
RubyAssignmentEnd(s, i) ==
    LET eq == SkipSpaces(s, RunEnd(s, i, WordChars))
    IN IF WordBoundary(s, i) /\ s[i] \in RubyNameStart /\ eq <= Len(s) /\ s[eq] = "="
       THEN eq + 1 ELSE 0

RubyAssigned(s) ==
    LET found == Matches(LAMBDA i : RubyAssignmentEnd(s, i), Len(s))
    IN [k \in 1..Len(found) |-> SubSeq(s, found[k][1], RunEnd(s, found[k][1], WordChars) - 1)]

\* the names  /\b([a-zA-Z_][a-zA-Z0-9_]*)=/g  captures, in order (BashObfuscator)
BashAssignmentEnd(s, i) ==
    LET eq == RunEnd(s, i, WordChars)
    IN IF WordBoundary(s, i) /\ IsIdentStart(s[i]) /\ eq <= Len(s) /\ s[eq] = "="
       THEN eq + 1 ELSE 0

BashAssigned(s) ==
    LET found == Matches(LAMBDA i : BashAssignmentEnd(s, i), Len(s))
    IN [k \in 1..Len(found) |-> SubSeq(s, found[k][1], found[k][2] - 2)]

GenericDeclKeywords ==
    {<<"v", "a", "r">>, <<"l", "e", "t">>, <<"c", "o", "n", "s", "t">>,
     <<"v", "a", "l">>, <<"d", "e", "f">>, <<"d", "i", "m">>,
     <<"l", "o", "c", "a", "l">>, <<"m", "y">>, <<"o", "u", "r">>}

GenericTypeKeywords ==
    {<<"i", "n", "t">>, <<"f", "l", "o", "a", "t">>, <<"d", "o", "u", "b", "l", "e">>,
     <<"s", "t", "r", "i", "n", "g">>, <<"b", "o", "o", "l">>,
     <<"b", "o", "o", "l", "e", "a", "n">>, <<"c", "h", "a", "r">>,
     <<"v", "o", "i", "d">>}

\* name.startsWith('_')
PyReserved ==
    {"False", "None", "True", "and", "as", "assert", "async", "await", "break", "class",
     "continue", "def", "del", "elif", "else", "except", "finally", "for", "from",
     "global", "if", "import", "in", "is", "lambda", "nonlocal", "not", "or", "pass",
     "raise", "return", "try", "while", "with", "yield", "print", "input", "len", "range",
     "str", "int", "float", "list", "dict", "set", "tuple", "open", "file", "self", "cls",
     "__init__", "__name__", "__main__", "__import__", "super", "type", "object",
     "isinstance", "hasattr", "getattr", "setattr"}

\* the names  /\b([a-zA-Z_][a-zA-Z0-9_]*)\s*=/g  captures, in order (PythonObfuscator)
PyAssignmentEnd(s, i) ==
    LET eq == SkipSpaces(s, RunEnd(s, i, WordChars))
    IN IF WordBoundary(s, i) /\ IsIdentStart(s[i]) /\ eq <= Len(s) /\ s[eq] = "="
       THEN eq + 1 ELSE 0

PyAssigned(s) ==
    LET found == Matches(LAMBDA i : PyAssignmentEnd(s, i), Len(s))
    IN [k \in 1..Len(found) |-> SubSeq(s, found[k][1], RunEnd(s, found[k][1], WordChars) - 1)]

\* name.startsWith('__')
StartsWithDunder(name) == Len(Join(name)) >= 2 /\ SubSeq(Join(name), 1, 2) = "__"

GoReserved ==
    {"break", "case", "chan", "const", "continue", "default", "defer", "else",
     "fallthrough", "for", "func", "go", "goto", "if", "import", "interface", "map",
     "package", "range", "return", "select", "struct", "switch", "type", "var", "true",
     "false", "nil", "int", "int8", "int16", "int32", "int64", "uint", "uint8", "uint16",
     "uint32", "uint64", "float32", "float64", "complex64", "complex128", "bool", "byte",
     "rune", "string", "error", "fmt", "Println", "Printf", "Print", "Sprintf", "Scanln",
     "Scanf", "main", "init", "len", "make", "new", "append", "cap", "copy", "close",
     "delete", "panic", "recover", "iota", "os", "Args", "Stdin", "Stdout"}

GoDeclKeywords == {<<"v", "a", "r">>, <<"f", "u", "n", "c">>}

\* the names  /\b([a-zA-Z_][a-zA-Z0-9_]*)\s*:=/g  captures, in order (GoObfuscator)
GoShortDeclarationEnd(s, i) ==
    LET eq == SkipSpaces(s, RunEnd(s, i, WordChars))
    IN IF WordBoundary(s, i) /\ IsIdentStart(s[i]) /\ StartsWithAt(s, eq, <<":", "=">>)
       THEN eq + 2 ELSE 0

GoShortDeclared(s) ==
    LET found == Matches(LAMBDA i : GoShortDeclarationEnd(s, i), Len(s))
    IN [k \in 1..Len(found) |-> SubSeq(s, found[k][1], RunEnd(s, found[k][1], WordChars) - 1)]

StartsWithUnderscore(name) ==
    name # <<>> /\ (name[1] = "_" \/ name[1] \in PlaceholderTokens \cup NameTokens)

\* the names each renameIdentifiers meets at declaration sites, in the order it
\* meets them
DiscoveredNames(tag, text) ==
    CASE tag = "javascript" ->
            DeclaredNames(text, text, JsDeclKeywords, JsNameStart, JsNameChars)
            \o AllParamNames(FunctionParamLists(text))
            \o AllParamNames(ArrowParamLists(text))
      [] tag = "php" -> PhpVariables(text)
      [] tag = "ruby" ->
            DeclaredNames(text, text, {<<"d", "e", "f">>}, RubyNameStart, RubyDefChars)
            \o RubyAssigned(text)
      [] tag = "generic" ->
            DeclaredNames(text, ToLower(text), GenericDeclKeywords,
                          IdentStartChars, WordChars)
            \o DeclaredNames(text, ToLower(text), GenericTypeKeywords,
                             IdentStartChars, WordChars)
      [] tag = "bash" -> BashAssigned(text)
      [] tag = "go" ->
            DeclaredNames(text, text, GoDeclKeywords, IdentStartChars, WordChars)
            \o GoShortDeclared(text)
      [] tag = "python" ->
            DeclaredNames(text, text, {<<"d", "e", "f">>}, IdentStartChars, WordChars)
            \o PyAssigned(text)

\* the test that guards varMap.set in each renameIdentifiers (varMap.has apart)
MayRename(tag, name) ==
    CASE tag = "javascript" -> name # <<>> /\ Join(name) \notin JsReserved
      [] tag = "php" -> Join(<<"$">> \o name) \notin PhpReserved /\ ~StartsWithUnderscore(name)
      [] tag = "ruby" -> Join(name) \notin RubyReserved
      [] tag = "generic" ->
            name # <<>> /\ Join(ToLower(name)) \notin GenericReserved /\ CharLength(name) > 1
      [] tag = "bash" -> Join(name) \notin BashReserved
      [] tag = "go" -> Join(name) \notin GoReserved
      [] tag = "python" -> Join(name) \notin PyReserved /\ ~StartsWithDunder(name)

\* the keys of varMap after discovery, in insertion order
RECURSIVE MapKeys(_, _, _)
MapKeys(tag, names, keys) ==
    IF names = <<>> THEN keys
    ELSE MapKeys(tag, Tail(names),
                 IF MayRename(tag, names[1]) /\ \A k \in 1..Len(keys) : keys[k] # names[1]
                 THEN Append(keys, names[1]) ELSE keys)

\* s.replace(new RegExp('\\$' + name + '\\b', 'g'), '$' + newName)  of PhpObfuscator
ReplaceSigil(s, name, newName) ==
    Replace(s,
            Matches(LAMBDA i : IF /\ s[i] = "$"
                                  /\ StartsWithAt(s, i + 1, name)
                                  /\ WordBoundary(s, i + 1 + Len(name))
                               THEN i + 1 + Len(name) ELSE 0, Len(s)),
            LAMBDA k : <<"$", newName>>)

RECURSIVE ReplaceSigils(_, _)
ReplaceSigils(s, map) ==
    IF map = <<>> THEN [threw |-> FALSE, text |-> s]
    ELSE ReplaceSigils(ReplaceSigil(s, map[1].oldName, map[1].newName), Tail(map))

\* s.replace(new RegExp('\\$\\{?' + name + '\\}?', 'g'), '$' + newName)  of
\* BashObfuscator: the end of the match that starts at i, or 0
DollarNameEnd(s, i, name) ==
    LET j == IF i < Len(s) /\ s[i + 1] = "{" THEN i + 2 ELSE i + 1
        e == j + Len(name)
    IN IF s[i] = "$" /\ StartsWithAt(s, j, name)
       THEN (IF e <= Len(s) /\ s[e] = "}" THEN e + 1 ELSE e)
       ELSE 0

ReplaceDollarName(s, name, newName) ==
    Replace(s, Matches(LAMBDA i : DollarNameEnd(s, i, name), Len(s)), LAMBDA k : <<"$", newName>>)

\* the forEach of BashObfuscator.renameIdentifiers: two replace() calls per name
RECURSIVE ReplaceBashNames(_, _)
ReplaceBashNames(s, map) ==
    IF map = <<>> THEN [threw |-> FALSE, text |-> s]
    ELSE ReplaceBashNames(
             ReplaceDollarName(ReplaceName(s, map[1].oldName, map[1].newName),
                               map[1].oldName, map[1].newName),
             Tail(map))

\* the text in which renameIdentifiers looks for names and replaces them
RenameInput(tag, text) == IF tag = "javascript" THEN StripTypes(text) ELSE text

\* the keys renameIdentifiers puts in its map for this text
RenameKeys(tag, text) == MapKeys(tag, DiscoveredNames(tag, RenameInput(tag, text)), <<>>)

\* the replacement loop of renameIdentifiers under the map `map`: the text it
\* returns, or that it threw
renameIdentifiers(tag, text, map) ==
    IF tag = "php" THEN ReplaceSigils(text, map)
    ELSE IF tag = "bash" THEN ReplaceBashNames(text, map)
    ELSE ReplaceNames(RenameInput(tag, text), map)

-----------------------------------------------------------------------------
(* Restoration of the literals.                                            *)

\* the replacement patterns of String.prototype.replace in a replacement string:
\* $$ is a dollar sign, $& the match, $` the text before it, $' the text after
ExpandReplacement(repl, before, matched, after) ==
    LET found == Matches(LAMBDA i : IF /\ repl[i] = "$"
                                      /\ i < Len(repl)
                                      /\ repl[i + 1] \in {"$", "&", Backtick, "'"}
                                   THEN i + 2 ELSE 0, Len(repl))
        pattern(k) == repl[found[k][1] + 1]
    IN Replace(repl, found,
               LAMBDA k : CASE pattern(k) = "$" -> <<"$">>
                            [] pattern(k) = "&" -> matched
                            [] pattern(k) = Backtick -> before
                            [] pattern(k) = "'" -> after)

\* result.replace(placeholder, replacement): the first occurrence only, with
\* the replacement patterns expanded
ReplaceFirst(s, placeholder, replacement) ==
    LET i == IndexOf(s, <<placeholder>>)
    IN IF i = 0 THEN s
       ELSE SliceTo(s, i - 1)
            \o ExpandReplacement(replacement, SliceTo(s, i - 1), <<placeholder>>,
                                 SliceFrom(s, i + 1))
            \o SliceFrom(s, i + 1)

\* result.split(placeholder).join(replacement): every occurrence, verbatim
ReplaceAll(s, placeholder, replacement) ==
    FlatMap(LAMBDA c : IF c = placeholder THEN replacement ELSE <<c>>, s)

\* str.split(''): the characters of a string of the program text
Chars(str) == [k \in 1..Len(str) |-> SubSeq(str, k, k)]

\* original.slice(1, -1)
Content(original) == SubSeq(original, 2, Len(original) - 1)

\* the characters a text spells, one atom each
SpellAll(s) == FlatMap(Spell, s)

\* Array.from(new TextEncoder().encode(content)), for ASCII content
Utf8Bytes(content) ==
    LET chars == SpellAll(content) IN [k \in 1..Len(chars) |-> CharCode(chars[k])]

Base64Alphabet ==
    <<"A", "B", "C", "D", "E", "F", "G", "H", "I", "J", "K", "L", "M", "N", "O", "P",
      "Q", "R", "S", "T", "U", "V", "W", "X", "Y", "Z", "a", "b", "c", "d", "e", "f",
      "g", "h", "i", "j", "k", "l", "m", "n", "o", "p", "q", "r", "s", "t", "u", "v",
      "w", "x", "y", "z", "0", "1", "2", "3", "4", "5", "6", "7", "8", "9", "+", "/">>

\* btoa(String.fromCharCode(...bytes))
Base64Group(b) ==
    LET A == Base64Alphabet
    IN IF Len(b) = 1
       THEN <<A[(b[1] \div 4) + 1], A[(b[1] % 4) * 16 + 1], "=", "=">>
       ELSE IF Len(b) = 2
       THEN <<A[(b[1] \div 4) + 1], A[(b[1] % 4) * 16 + (b[2] \div 16) + 1],
              A[(b[2] % 16) * 4 + 1], "=">>
       ELSE <<A[(b[1] \div 4) + 1], A[(b[1] % 4) * 16 + (b[2] \div 16) + 1],
              A[(b[2] % 16) * 4 + (b[3] \div 64) + 1], A[(b[3] % 64) + 1]>>

Btoa(b) ==
    FlatMap(LAMBDA g : Base64Group(SubSeq(b, 3 * g - 2, IF 3 * g > Len(b) THEN Len(b) ELSE 3 * g)),
            [g \in 1..((Len(b) + 2) \div 3) |-> g])

\* content.length > 0 && content.length < 100
Encodable(content) == CharLength(content) > 0 /\ CharLength(content) < EncodeLimit

\* content.length > 0 && content.length < 80  of GenericObfuscator
GenericEncodeLimit == 80

\* the replacement patterns #{...} of a Ruby literal, renamed under the map (the
\* renaming stage has built the same patterns before, so none is invalid here)
RubyInterpolate(s, map) ==
    LET close(i) == IF StartsWithAt(s, i, <<"#", "{">>) THEN IndexOfFrom(s, <<"}">>, i + 2) ELSE 0
        found == Matches(LAMBDA i : IF close(i) > i + 2 THEN close(i) + 1 ELSE 0, Len(s))
    IN Replace(s, found,
               LAMBDA k : <<"#", "{">>
                          \o ReplaceNames(SubSeq(s, found[k][1] + 2, found[k][2] - 2), map).text
                          \o <<"}">>)

\* quote === '"' && /\$[a-zA-Z_{]/.test(content)  of BashObfuscator
BashHasInterpolation(original) ==
    /\ original[1] = "\""
    /\ \E i \in 1..(Len(Content(original)) - 1) :
          /\ Content(original)[i] = "$"
          /\ IsIdentStart(Content(original)[i + 1]) \/ Content(original)[i + 1] = "{"

\* /\$\{?([a-zA-Z_][a-zA-Z0-9_]*)\}?/g  at position i: where the captured name
\* starts, where it ends and where the match ends, or <<0, 0, 0>>
BashExpansionAt(s, i) ==
    LET j == IF i < Len(s) /\ s[i + 1] = "{" THEN i + 2 ELSE i + 1
        e == RunEnd(s, j, WordChars)
    IN IF s[i] = "$" /\ j <= Len(s) /\ IsIdentStart(s[j])
       THEN <<j, e, IF e <= Len(s) /\ s[e] = "}" THEN e + 1 ELSE e>>
       ELSE <<0, 0, 0>>

\* this.varMap.get(varName): the new name, or <<>> for undefined
MapGet(map, name) ==
    LET hits == {k \in 1..Len(map) : map[k].oldName = name}
    IN IF hits = {} THEN <<>> ELSE <<map[Least(hits)].newName>>

\* the replace() of BashObfuscator's restoration loop that renames the variables
\* of $var and ${var}: match.includes('{') ? `\${${newName}}` : `$${newName}`
BashInterpolate(s, map) ==
    LET found == Matches(LAMBDA i : BashExpansionAt(s, i)[3], Len(s))
        name(k) == SubSeq(s, BashExpansionAt(s, found[k][1])[1],
                          BashExpansionAt(s, found[k][1])[2] - 1)
        match(k) == SubSeq(s, found[k][1], found[k][2] - 1)
    IN Replace(s, found,
               LAMBDA k : IF MapGet(map, name(k)) = <<>> THEN match(k)
                          ELSE IF Contains(match(k), <<"{">>)
                          THEN <<"$", "{">> \o MapGet(map, name(k)) \o <<"}">>
                          ELSE <<"$">> \o MapGet(map, name(k)))

\* `(new TextDecoder().decode(Uint8Array.from(atob("${b64}"),c=>c.charCodeAt(0))))`
JsBase64Prefix ==
    <<"(", "n", "e", "w", " ", "T", "e", "x", "t", "D", "e", "c", "o", "d", "e", "r",
      "(", ")", ".", "d", "e", "c", "o", "d", "e", "(", "U", "i", "n", "t", "8", "A",
      "r", "r", "a", "y", ".", "f", "r", "o", "m", "(", "a", "t", "o", "b", "(", "\"">>

JsBase64Suffix ==
    <<"\"", ")", ",", "c", "=", ">", "c", ".", "c", "h", "a", "r", "C", "o", "d", "e",
      "A", "t", "(", "0", ")", ")", ")", ")">>

\* content.length < 50 of SqlObfuscator's restoration loop
SqlEncodeLimit == 50

\* n.toString(), digit by digit
RECURSIVE DecimalDigits(_)
DecimalDigits(n) ==
    IF n < 10 THEN <<ToString(n)>> ELSE DecimalDigits(n \div 10) \o <<ToString(n % 10)>>

\* content.split('').map(c => `CHAR(${c.charCodeAt(0)})`).join(',')
RECURSIVE SqlChars(_)
SqlChars(content) ==
    IF content = <<>> THEN <<>>
    ELSE <<"C", "H", "A", "R", "(">> \o DecimalDigits(CharCode(content[1])) \o <<")">>
         \o (IF Len(content) = 1 THEN <<>> ELSE <<",">> \o SqlChars(Tail(content)))

\* the `replacement` the restoration loop of each obfuscate() computes for one
\* entry of `strings`
Replacement(tag, entry, o, map) ==
    LET original == entry.original
        content == Content(original)
    IN CASE tag = "javascript" ->
              IF original[1] # Backtick /\ Encodable(content)
              THEN IF o.base64Strings
                   THEN JsBase64Prefix
                        \o Btoa(Utf8Bytes(content))
                        \o JsBase64Suffix
                   ELSE IF o.hexEncoding /\ o.encodeStrings
                   THEN <<"\"">> \o HexPrintable(content) \o <<"\"">>
                   ELSE IF o.unicodeEscape /\ o.encodeStrings
                   THEN <<"\"">> \o UnicodePrintable(content) \o <<"\"">>
                   ELSE original
              ELSE original
         [] tag = "php" ->
              IF Encodable(content)
              THEN IF o.base64Strings
                   THEN <<"b", "a", "s", "e", "6", "4", "_", "d", "e", "c", "o", "d", "e", "(", "'">>
                        \o Btoa(Utf8Bytes(content)) \o <<"'", ")">>
                   ELSE IF o.hexEncoding /\ o.encodeStrings
                   THEN <<"\"">> \o HexAll(content) \o <<"\"">>
                   ELSE original
              ELSE original
         [] tag = "ruby" ->
              IF Contains(original, <<"#", "{">>) /\ o.renameVariables
              THEN RubyInterpolate(original, map)
              ELSE IF ~Contains(original, <<"#", "{">>) /\ Encodable(content)
                      /\ o.hexEncoding /\ o.encodeStrings
              THEN <<"\"">> \o HexAll(content) \o <<"\"">>
              ELSE original
         [] tag = "generic" ->
              IF /\ o.encodeStrings
                 /\ entry.quote \in {<<"\"">>, <<"'">>}
                 /\ CharLength(content) > 0
                 /\ CharLength(content) < GenericEncodeLimit
                 /\ ~Contains(content, <<"$">>)
              THEN entry.quote \o UnicodeAll(content) \o entry.quote
              ELSE original
         [] tag = "bash" ->
              IF BashHasInterpolation(original) /\ o.renameVariables
              THEN BashInterpolate(original, map)
              ELSE IF ~BashHasInterpolation(original) /\ Encodable(content)
                      /\ original[1] = "\""
              THEN IF o.base64Strings
                   THEN <<"$", "(", "e", "c", "h", "o", " ", "'">> \o Btoa(Utf8Bytes(content))
                        \o <<"'", "|", "b", "a", "s", "e", "6", "4", " ", "-", "d", ")">>
                   ELSE IF o.hexEncoding /\ o.encodeStrings
                   THEN <<"$", "'">> \o HexAll(content) \o <<"'">>
                   ELSE original
              ELSE original
         [] tag = "python" ->
              IF original[1] # "f" /\ Encodable(content)
              THEN IF o.base64Strings
                   THEN Chars("__import__('base64').b64decode('") \o Btoa(Utf8Bytes(content))
                        \o Chars("').decode('utf-8')")
                   ELSE IF o.hexEncoding /\ o.encodeStrings
                   THEN <<"\"">> \o HexAll(content) \o <<"\"">>
                   ELSE original
              ELSE original
         [] tag = "go" ->
              IF original[1] # Backtick /\ Encodable(content) /\ o.hexEncoding /\ o.encodeStrings
              THEN <<"\"">> \o HexAll(content) \o <<"\"">>
              ELSE original
         [] tag = "sql" ->
              IF /\ o.encodeStrings
                 /\ original[1] = "'"
                 /\ CharLength(content) > 0
                 /\ CharLength(content) < SqlEncodeLimit
              THEN <<"C", "O", "N", "C", "A", "T", "(">> \o SqlChars(content) \o <<")">>
              ELSE original

\* the loop  for (const {original, placeholder} of strings)  of each obfuscate()
RECURSIVE RestoreStrings(_, _, _, _, _)
RestoreStrings(tag, text, table, o, map) ==
    IF table = <<>> THEN text
    ELSE LET replacement == Replacement(tag, table[1], o, map)
         IN RestoreStrings(tag,
                IF tag \in {"javascript", "php", "go", "python"}
                THEN ReplaceFirst(text, table[1].placeholder, replacement)
                ELSE ReplaceAll(text, table[1].placeholder, replacement),
                Tail(table), o, map)

-----------------------------------------------------------------------------
(* Dead-code injection.                                                    *)

\* the number of lines of one call that receive dead code is capped in the model
MaxInjected == 1

\* /\b(words)\b/.test(s)
HasWord(s, words) ==
    \E i \in 1..Len(s) : \E w \in words :
        WordBoundary(s, i) /\ StartsWithAt(s, i, w) /\ WordBoundary(s, i + Len(w))

EndsWith(s, c) == s # <<>> /\ s[Len(s)] = c

\* the snippets each handler chooses from
DeadSnippets(tag) ==
    CASE tag = "javascript" -> <<<<"v", "o", "i", "d", " ", "0", ";">>, <<"(", "f", "u", "n", "c", "t", "i", "o", "n", "(", ")", "{", "}", ")", "(", ")", ";">>, <<"!", "1", ";">>>>
      [] tag = "php" -> <<<<"i", "f", "(", "0", ")", "{", "}">>>>
      [] tag = "ruby" -> <<<<"_", " ", "=", " ", "n", "i", "l">>>>
      [] tag = "bash" -> <<<<":">>>>
      [] tag = "python" ->
            <<Chars("_ = None"), Chars("__ = lambda:None"), Chars("___ = type(\"\",(),{})()"),
              Chars("____ = [None][0]")>>
      [] tag = "go" -> <<<<"\t", "_", " ", "=", " ", "f", "u", "n", "c", "(", ")", "i", "n", "t", "{", "r", "e", "t", "u", "r", "n", " ", "0", "}", "(", ")">>>>

\* insideMethod of RubyObfuscator.injectDeadCode once line k has been read
RECURSIVE RubyInsideMethod(_, _)
RubyInsideMethod(lines, k) ==
    IF k = 0 THEN FALSE
    ELSE LET trimmed == Trim(lines[k])
             entered == StartsWithAt(trimmed, 1, <<"d", "e", "f", " ">>) \/ RubyInsideMethod(lines, k - 1)
         IN entered /\ trimmed # <<"e", "n", "d">>

\* insideFunc and braceDepth of GoObfuscator.injectDeadCode once line k has been
\* read and the two have been updated for it
RECURSIVE GoBraceState(_, _)
GoBraceState(lines, k) ==
    IF k = 0 THEN [insideFunc |-> FALSE, braceDepth |-> 0]
    ELSE LET before == GoBraceState(lines, k - 1)
             trimmed == Trim(lines[k])
             entered == StartsWithAt(trimmed, 1, <<"f", "u", "n", "c", " ">>)
             depth == (IF entered THEN 0 ELSE before.braceDepth)
                      + CountChar(trimmed, "{") - CountChar(trimmed, "}")
         IN [insideFunc |-> (entered \/ before.insideFunc) /\ depth > 0, braceDepth |-> depth]

GoTerminators ==
    {<<"r", "e", "t", "u", "r", "n">>, <<"b", "r", "e", "a", "k">>,
     <<"c", "o", "n", "t", "i", "n", "u", "e">>, <<"g", "o", "t", "o">>}

JsTerminators ==
    {<<"r", "e", "t", "u", "r", "n">>, <<"t", "h", "r", "o", "w">>,
     <<"b", "r", "e", "a", "k">>, <<"c", "o", "n", "t", "i", "n", "u", "e">>}

PhpTerminators ==
    {<<"r", "e", "t", "u", "r", "n">>, <<"t", "h", "r", "o", "w">>,
     <<"b", "r", "e", "a", "k">>, <<"c", "o", "n", "t", "i", "n", "u", "e">>,
     <<"e", "x", "i", "t">>, <<"d", "i", "e">>}

RubyTerminators ==
    {<<"r", "e", "t", "u", "r", "n">>, <<"b", "r", "e", "a", "k">>,
     <<"n", "e", "x", "t">>, <<"r", "a", "i", "s", "e">>}

\* the condition, apart from the random draw, under which a snippet is pushed
\* after line k
MayInject(tag, lines, k) ==
    LET trimmed == Trim(lines[k])
    IN CASE tag = "javascript" ->
              /\ EndsWith(trimmed, ";") \/ EndsWith(trimmed, "}")
              /\ ~HasWord(trimmed, JsTerminators)
         [] tag = "php" ->
              EndsWith(trimmed, ";") /\ ~HasWord(trimmed, PhpTerminators)
         [] tag = "ruby" ->
              /\ RubyInsideMethod(lines, k)
              /\ trimmed # <<>>
              /\ ~HasWord(trimmed, RubyTerminators)
         [] tag = "bash" ->
              trimmed # <<>> /\ trimmed[1] # "#"
         [] tag = "python" ->
              trimmed # <<>> /\ trimmed[1] # "#"
         [] tag = "go" ->
              /\ GoBraceState(lines, k).insideFunc
              /\ GoBraceState(lines, k).braceDepth >= 1
              /\ ~HasWord(trimmed, GoTerminators)
              /\ EndsWith(trimmed, "{")

\* the outcomes of the random draws of one call: for each line, 0 or the number
\* of the snippet pushed after it
DeadCodePicks(tag, text) ==
    LET lines == SplitOn(text, "\n")
    IN {pick \in [1..Len(lines) -> 0..Len(DeadSnippets(tag))] :
            /\ \A k \in 1..Len(lines) : pick[k] # 0 => MayInject(tag, lines, k)
            /\ Cardinality({k \in 1..Len(lines) : pick[k] # 0}) <= MaxInjected}

\* injectDeadCodeSafe / injectDeadCode under the draws `pick`
InjectDeadCode(tag, text, pick) ==
    LET lines == SplitOn(text, "\n")
        indent(k) == IF tag = "python"
                     THEN SubSeq(lines[k], 1, SkipSpaces(lines[k], 1) - 1) ELSE <<>>
        pushed == [k \in 1..Len(lines) |->
                      IF pick[k] = 0 THEN lines[k]
                      ELSE lines[k] \o <<"\n">> \o indent(k) \o DeadSnippets(tag)[pick[k]]]
    IN JoinWith(pushed, <<"\n">>)

-----------------------------------------------------------------------------
(* Minification.                                                           *)

\* s.replace(/c{least,}/g, with) for the characters c of a set: every longest
\* run of at least `least` of them becomes `with`
CollapseRuns(s, chars, least, with) ==
    Replace(s, Matches(LAMBDA i : IF RunEnd(s, i, chars) - i >= least
                                  THEN RunEnd(s, i, chars) ELSE 0, Len(s)),
            LAMBDA k : with)

WhiteSpace == {" ", "\n", "\t"}

\* s.replace(/\n\s*/g, ' ')
JoinLines(s) ==
    Replace(s, Matches(LAMBDA i : IF s[i] = "\n" THEN SkipSpaces(s, i + 1) ELSE 0, Len(s)),
            LAMBDA k : <<" ">>)

\* s.replace(/\s*([punct])\s*/g, '$1'), and with notBefore = {"?"} the pattern
\* /\s*([punct])(?!\?)\s*/g
TightenPunctuation(s, punct, notBefore) ==
    LET at(i) == SkipSpaces(s, i)
        found == Matches(LAMBDA i : IF /\ at(i) <= Len(s)
                                      /\ s[at(i)] \in punct
                                      /\ ~(at(i) < Len(s) /\ s[at(i) + 1] \in notBefore)
                                   THEN SkipSpaces(s, at(i) + 1) ELSE 0, Len(s))
    IN Replace(s, found, LAMBDA k : <<s[at(found[k][1])]>>)

\* s.replace(/\b(keywords)\b(?=[^\s])/g, '$1 ')
SpacedKeywordAt(s, keywords, i) ==
    {kw \in keywords :
        /\ WordBoundary(s, i)
        /\ StartsWithAt(s, i, kw)
        /\ WordBoundary(s, i + Len(kw))
        /\ i + Len(kw) <= Len(s)
        /\ ~IsSpace(s[i + Len(kw)])}

SpaceAfterKeywords(s, keywords) ==
    LET found == Matches(LAMBDA i : IF SpacedKeywordAt(s, keywords, i) = {} THEN 0
                                   ELSE i + Len(CHOOSE kw \in SpacedKeywordAt(s, keywords, i) : TRUE),
                         Len(s))
    IN Replace(s, found, LAMBDA k : SubSeq(s, found[k][1], found[k][2] - 1) \o <<" ">>)

JsPunctuation ==
    {"{", "}", ";", ",", "(", ")", "=", "+", "-", "*", "/", "<", ">", "!", "&", "|", "?", ":"}

JsSpacedKeywords ==
    {<<"v", "a", "r">>, <<"l", "e", "t">>, <<"c", "o", "n", "s", "t">>,
     <<"f", "u", "n", "c", "t", "i", "o", "n">>, <<"r", "e", "t", "u", "r", "n">>,
     <<"t", "h", "r", "o", "w">>, <<"n", "e", "w">>, <<"t", "y", "p", "e", "o", "f">>,
     <<"i", "f">>, <<"e", "l", "s", "e">>, <<"f", "o", "r">>,
     <<"w", "h", "i", "l", "e">>, <<"d", "o">>, <<"s", "w", "i", "t", "c", "h">>,
     <<"c", "a", "s", "e">>, <<"b", "r", "e", "a", "k">>,
     <<"c", "o", "n", "t", "i", "n", "u", "e">>, <<"t", "r", "y">>,
     <<"c", "a", "t", "c", "h">>, <<"f", "i", "n", "a", "l", "l", "y">>}

\* JavaScriptObfuscator.minifyCode
JsMinify(text) ==
    LET m1 == RemoveToLineEnd(text, <<"/", "/">>)
        m2 == RemoveDelimited(m1, <<"/", "*">>, <<"*", "/">>)
        m3 == CollapseRuns(m2, {" "}, 2, <<" ">>)
        m4 == JoinLines(m3)
        m5 == TightenPunctuation(m4, JsPunctuation, {})
        m6 == SpaceAfterKeywords(m5, JsSpacedKeywords)
        m7 == CollapseRuns(m6, {";"}, 1, <<";">>)
        m8 == CollapseRuns(m7, WhiteSpace, 1, <<" ">>)
    IN Trim(m8)

PhpPunctuation == JsPunctuation \cup {"."}

PhpSpacedKeywords ==
    {<<"f", "u", "n", "c", "t", "i", "o", "n">>, <<"i", "f">>, <<"e", "l", "s", "e">>,
     <<"f", "o", "r">>, <<"f", "o", "r", "e", "a", "c", "h">>,
     <<"w", "h", "i", "l", "e">>, <<"r", "e", "t", "u", "r", "n">>,
     <<"c", "l", "a", "s", "s">>, <<"p", "u", "b", "l", "i", "c">>,
     <<"p", "r", "i", "v", "a", "t", "e">>,
     <<"p", "r", "o", "t", "e", "c", "t", "e", "d">>, <<"e", "c", "h", "o">>,
     <<"n", "e", "w">>, <<"s", "t", "a", "t", "i", "c">>}

\* PhpObfuscator.minifyCode
PhpMinify(text) ==
    LET m1 == RemoveToLineEnd(text, <<"/", "/">>)
        m2 == RemoveToLineEnd(m1, <<"#">>)
        m3 == RemoveDelimited(m2, <<"/", "*">>, <<"*", "/">>)
        m4 == CollapseRuns(JoinLines(m3), WhiteSpace, 1, <<" ">>)
        m5 == TightenPunctuation(m4, PhpPunctuation, {"?"})
        m6 == SpaceAfterKeywords(m5, PhpSpacedKeywords)
    IN Trim(m6)

\* .split('\n').map(l => l.trim()).filter(l => l.length > 0)
TrimmedLines(text) ==
    LET lines == SplitOn(text, "\n")
    IN SelectSeq([k \in 1..Len(lines) |-> Trim(lines[k])], LAMBDA l : l # <<>>)

\* GenericObfuscator.minifyCode
GenericMinify(text) == JoinWith(TrimmedLines(text), <<"\n">>)

\* /\s#(?!\{)/.test(line)
HasInlineComment(line) ==
    \E i \in 1..(Len(line) - 1) :
        IsSpace(line[i]) /\ line[i + 1] = "#" /\ ~(i + 2 <= Len(line) /\ line[i + 2] = "{")

RubyJoinedKeywords ==
    {<<"e", "l", "s", "e">>, <<"e", "l", "s", "i", "f">>, <<"e", "n", "d">>,
     <<"w", "h", "e", "n">>, <<"r", "e", "s", "c", "u", "e">>,
     <<"e", "n", "s", "u", "r", "e">>, <<"t", "h", "e", "n">>, <<"d", "o">>}

\* the loop of RubyObfuscator.minifyCode: each line with what is pushed after it
RubySeparated(lines) ==
    [i \in 1..Len(lines) |->
        LET line == CollapseRuns(lines[i], WhiteSpace, 1, <<" ">>)
            isFullLineComment == line[1] = "#"
            hasInlineComment == ~isFullLineComment /\ HasInlineComment(line)
            nextIsComment == i < Len(lines) /\ Trim(lines[i + 1])[1] = "#"
        IN IF isFullLineComment \/ hasInlineComment \/ nextIsComment THEN line \o <<"\n">>
           ELSE IF i = Len(lines) THEN line
           ELSE line \o <<";">>]

\* finalResult.replace(/;(keywords)/g, ' $1')
SpaceBeforeKeywords(s, keywords) ==
    [i \in 1..Len(s) |->
        IF s[i] = ";" /\ \E kw \in keywords : StartsWithAt(s, i + 1, kw) THEN " " ELSE s[i]]

\* finalResult.replace(/;\n/g, '\n')
DropBeforeNewline(s) ==
    Replace(s, Matches(LAMBDA i : IF s[i] = ";" /\ i < Len(s) /\ s[i + 1] = "\n"
                                  THEN i + 2 ELSE 0, Len(s)),
            LAMBDA k : <<"\n">>)

\* RubyObfuscator.minifyCode
RubyMinify(text) ==
    LET joined == Flatten(RubySeparated(TrimmedLines(text)))
        m1 == SpaceBeforeKeywords(joined, RubyJoinedKeywords)
        m2 == CollapseRuns(m1, {";"}, 1, <<";">>)
    IN Trim(DropBeforeNewline(m2))

BashNewlineKeywords ==
    {<<"t", "h", "e", "n">>, <<"d", "o">>, <<"e", "l", "s", "e">>, <<"e", "l", "i", "f">>}

\* /\b(then|do|else|elif)\s*$/.test(line) || line.endsWith('{')
BashNeedsNewline(line) ==
    \/ \E kw \in BashNewlineKeywords :
          LET e == Len(TrimEnd(line))
          IN /\ e >= Len(kw)
             /\ StartsWithAt(line, e - Len(kw) + 1, kw)
             /\ WordBoundary(line, e - Len(kw) + 1)
    \/ EndsWith(line, "{")

\* the loop of BashObfuscator.minifyCode: each line with what is pushed after it
BashSeparated(lines) ==
    [i \in 1..Len(lines) |->
        LET line == CollapseRuns(lines[i], WhiteSpace, 1, <<" ">>)
            isFullLineComment == line[1] = "#"
            hasInlineComment ==
                ~isFullLineComment
                /\ \E j \in 1..(Len(line) - 1) : IsSpace(line[j]) /\ line[j + 1] = "#"
            nextIsComment == i < Len(lines) /\ Trim(lines[i + 1])[1] = "#"
        IN IF isFullLineComment \/ hasInlineComment \/ nextIsComment THEN line \o <<"\n">>
           ELSE IF i = Len(lines) THEN line
           ELSE IF BashNeedsNewline(line) THEN line \o <<"\n">>
           ELSE line \o <<";">>]

\* s.replace(/;\s*$/g, ''): a semicolon with only white space after it goes
DropLastSemicolon(s) ==
    IF EndsWith(TrimEnd(s), ";") THEN SliceTo(TrimEnd(s), Len(TrimEnd(s)) - 1) ELSE s

\* BashObfuscator.minifyCode; its second loop puts every line back as it was
BashMinify(text) ==
    Trim(DropLastSemicolon(
             CollapseRuns(Flatten(BashSeparated(TrimmedLines(text))), {";"}, 1, <<";">>)))

-----------------------------------------------------------------------------
(* The intensity stage of JavaScriptObfuscator.                            *)

JsQuoted == <<Escaped("\""), Escaped("'")>>

\* processed.replace(/"(?:[^"\\]|\\.)*"|'(?:[^'\\]|\\.)*'/g, match => '"' + hex + '"')
\* of applyHighObfuscation
HexEncodeStrings(s) ==
    LET found == Matches(LAMBDA i : FirstMatch(JsQuoted, s, i)[1], Len(s))
    IN Replace(s, found,
               LAMBDA k : <<"\"">> \o HexAll(Between(s, found[k][1] + 1, found[k][2] - 2))
                          \o <<"\"">>)

\* the constant `debugTrap`
DebugTrap == "(function(){var d=new Date();debugger;if(new Date()-d>50)while(1){}})();"

\* JavaScriptObfuscator.applyHighObfuscation
applyHighObfuscation(text) == <<DebugTrap>> \o HexEncodeStrings(JsMinify(text))

\* the strings applyExtremeObfuscation moves into its array, in order
QuotedStrings(s) ==
    LET found == Matches(LAMBDA i : FirstMatch(JsQuoted, s, i)[1], Len(s))
    IN [k \in 1..Len(found) |-> SubSeq(s, found[k][1], found[k][2] - 1)]

\* idx.toString(16), for the indexes of the model
HexIndex(idx) == IF idx < 16 THEN HexDigits[idx + 1] ELSE ToString(idx)

\* the text after each string has become the call `_0x${idx.toString(16)}()`
CallStrings(s) ==
    Replace(s, Matches(LAMBDA i : FirstMatch(JsQuoted, s, i)[1], Len(s)),
            LAMBDA k : <<"_", "0", "x", HexIndex(k - 1), "(", ")">>)

\* a ^ b on non-negative integers
RECURSIVE Xor(_, _)
Xor(a, b) ==
    IF a = 0 THEN b
    ELSE IF b = 0 THEN a
    ELSE ((a + b) % 2) + 2 * Xor(a \div 2, b \div 2)

\* the keys Math.floor(Math.random() * 50) + 10 can return in the model: the
\* least and the greatest
DecoderKeys == {10, 59}

\* chars.map((c, j) => (c ^ (key + j)) & 0xFF).join(',')
EncodedBytes(string, key) ==
    LET chars == Utf8Bytes(Content(string))
    IN JoinWith([j \in 1..Len(chars) |-> <<ToString(Xor(chars[j], key + j - 1) % 256)>>],
                <<",">>)

\* the decoder function of string number idx, one atom
Decoder(string, idx, key) ==
    "function _0x" \o HexIndex(idx) \o "(){var a=[" \o Join(EncodedBytes(string, key))
    \o "],s='';for(var i=0;i<a.length;i++)s+=String.fromCharCode(a[i]^("
    \o ToString(key) \o "+i));return s;}"

\* the constant `antiDebug`
AntiDebug ==
    "(function(){var t=0;setInterval(function(){var s=Date.now();debugger;"
    \o "t+=(Date.now()-s>100)?1:0;if(t>2)while(1){}},100)})();"

\* the template `selfDefend`; `${processed.length / 2}` prints a half as .5
SelfDefend(processed) ==
    "(function(){try{var f=arguments.callee.toString();if(f.length<"
    \o ToString(CharLength(processed) \div 2)
    \o (IF CharLength(processed) % 2 = 1 THEN ".5" ELSE "")
    \o ")while(1){}}catch(e){}})();"

\* what applyExtremeObfuscation builds from the minified text: antiDebug,
\* selfDefend, one decoder per string of the array, and the processed text
ExtremeFrom(minified, keys) ==
    <<AntiDebug, SelfDefend(CallStrings(minified))>>
        \o [k \in 1..Len(QuotedStrings(minified)) |->
               Decoder(QuotedStrings(minified)[k], k - 1, keys[k])]
        \o CallStrings(minified)

\* JavaScriptObfuscator.applyExtremeObfuscation under the random keys `keys`
applyExtremeObfuscation(text, keys) == ExtremeFrom(JsMinify(text), keys)

\* the names the random source of generateObfuscatedVarNames can return in the
\* model
PyVarNames == {"_O0Il1O", "_lI1O0l"}

\* the letters an atom of a text stands for
Letters(c) ==
    IF IsChar(c) THEN <<c>>
    ELSE IF c \in RunAtoms THEN Spell(c)
    ELSE Chars(c)

\* btoa(String.fromCharCode(...new TextEncoder().encode(code))), for ASCII text
PyBase64(text) ==
    LET chars == FlatMap(Letters, text)
    IN Btoa([k \in 1..Len(chars) |-> CharCode(chars[k])])

\* PythonObfuscator.generateJunkCode under the names it draws
generateJunkCode(varNames) ==
    <<varNames[1]>> \o Chars("=lambda ") \o <<varNames[2], ":", varNames[2], ";", varNames[3]>>
    \o Chars("=type('',(),{'__slots__':()})();") \o <<varNames[4]>>
    \o Chars("=[None,False,0,''][0];") \o <<varNames[5]>> \o Chars("=(lambda:None)()")

\* PythonObfuscator.wrapWithZlibBase64Layers under the names that reach the
\* output: varNames[0] with three layers, those of the junk code with two
wrapWithZlibBase64Layers(text, layers, names) ==
    LET b64 == PyBase64(text)
        run == Chars("exec(__import__('base64').b64decode('") \o b64 \o Chars("').decode())")
    IN IF layers >= 3
       THEN Chars("(lambda ") \o <<names[1]>>
            \o Chars(":exec(__import__('zlib').decompress(__import__('base64').b64decode(")
            \o <<names[1]>>
            \o Chars("))))(__import__('base64').b64encode(__import__('zlib').compress('''")
            \o b64 \o Chars("'''.encode())).decode()) if False else ") \o run
       ELSE IF layers >= 2
       THEN generateJunkCode(names) \o <<";">> \o run
       ELSE run

\* the draws of the last step of one call: a key per string of the minified
\* text for JavaScript at intensity extreme, the names for Python at high and
\* extreme, none otherwise
KeyDraws(tag, text, o) ==
    IF tag = "javascript" /\ o.intensity = "extreme"
    THEN [1..Len(QuotedStrings(JsMinify(text))) -> DecoderKeys]
    ELSE IF tag = "python" /\ o.intensity = "extreme" THEN [1..1 -> PyVarNames]
    ELSE IF tag = "python" /\ o.intensity = "high" THEN [1..5 -> PyVarNames]
    ELSE {<<>>}

-----------------------------------------------------------------------------
(* SqlObfuscator: aliases, keyword case, padding and minifySql.            *)

SqlReserved ==
    {"SELECT", "FROM", "WHERE", "AND", "OR", "INSERT", "INTO", "VALUES",
     "UPDATE", "SET", "DELETE", "CREATE", "TABLE", "DROP", "ALTER", "ADD",
     "COLUMN", "INDEX", "PRIMARY", "KEY", "FOREIGN", "REFERENCES", "JOIN",
     "INNER", "LEFT", "RIGHT", "OUTER", "FULL", "CROSS", "ON", "GROUP", "BY", "ORDER",
     "HAVING", "LIMIT", "OFFSET", "UNION", "ALL", "DISTINCT", "AS", "NULL",
     "NOT", "IN", "LIKE", "BETWEEN", "EXISTS", "CASE", "WHEN", "THEN",
     "ELSE", "END", "COUNT", "SUM", "AVG", "MAX", "MIN", "ASC", "DESC",
     "IS", "TRUE", "FALSE", "DEFAULT", "CONSTRAINT", "UNIQUE", "CHECK",
     "BEGIN", "COMMIT", "ROLLBACK", "TRANSACTION", "DECLARE", "CURSOR",
     "FETCH", "IF", "WHILE", "RETURN", "EXEC", "EXECUTE", "PROCEDURE",
     "FUNCTION", "TRIGGER", "VIEW", "DATABASE", "SCHEMA", "GRANT", "REVOKE",
     "INT", "VARCHAR", "TEXT", "DATE", "DATETIME", "TIMESTAMP", "BOOLEAN", "FLOAT", "DECIMAL"}

\* String.prototype.toUpperCase, atom by atom
ToUpper(s) ==
    [k \in 1..Len(s) |->
        IF s[k] \in LowerLetters THEN (CHOOSE u \in DOMAIN LowerOf : LowerOf[u] = s[k])
        ELSE s[k]]

\* the match of  /\b(FROM|JOIN)\s+(\w+)\s+(AS\s+)?(\w+)/gi  that starts at i, as
\* <<start of the alias, position after the match>>, or <<0, 0>>
SqlAliasAt(s, i) ==
    LET table == SkipSpaces(s, i + 4)
        gap == RunEnd(s, table, WordChars)
        first == SkipSpaces(s, gap)
        second == SkipSpaces(s, first + 2)
    IN IF /\ WordBoundary(s, i)
          /\ i + 3 <= Len(s)
          /\ Join(ToUpper(SubSeq(s, i, i + 3))) \in {"FROM", "JOIN"}
          /\ table > i + 4
          /\ gap > table
          /\ first > gap
       THEN IF /\ first + 1 <= Len(s)
               /\ Join(ToUpper(SubSeq(s, first, first + 1))) = "AS"
               /\ second > first + 2
               /\ RunEnd(s, second, WordChars) > second
            THEN <<second, RunEnd(s, second, WordChars)>>
            ELSE IF RunEnd(s, first, WordChars) > first
            THEN <<first, RunEnd(s, first, WordChars)>>
            ELSE <<0, 0>>
       ELSE <<0, 0>>

\* match[4] of every match of the alias pattern, in order
SqlAliases(s) ==
    LET found == Matches(LAMBDA i : SqlAliasAt(s, i)[2], Len(s))
    IN [k \in 1..Len(found) |-> SubSeq(s, SqlAliasAt(s, found[k][1])[1], found[k][2] - 1)]

\* the aliases the while loop of renameAliases adds to this.variableMap, which
\* holds `map` when the loop starts
RECURSIVE SqlNewAliases(_, _, _)
SqlNewAliases(aliases, map, acc) ==
    IF aliases = <<>> THEN acc
    ELSE SqlNewAliases(Tail(aliases), map,
             IF /\ Join(ToUpper(aliases[1])) \notin SqlReserved
                /\ MapGet(map, aliases[1]) = <<>>
                /\ \A k \in 1..Len(acc) : acc[k] # aliases[1]
             THEN Append(acc, aliases[1]) ELSE acc)

\* this.variableMap after renameAliases, when generateObfuscatedName draws
\* pick[k] for the k-th new alias and the counter is n before the call
SqlMap(map, keys, pick, n) ==
    map \o [k \in 1..Len(keys) |->
               [oldName |-> keys[k], newName |-> pick[k] \o ToString(n + k)]]

\* the end of the keyword that starts at i, or 0:  new RegExp(`\\b${keyword}\\b`, 'gi')
\* for every keyword of `reserved`
SqlKeywordAt(s, i) ==
    IF /\ WordBoundary(s, i)
       /\ IsWordChar(s[i])
       /\ Join(ToUpper(SubSeq(s, i, RunEnd(s, i, WordChars) - 1))) \in SqlReserved
    THEN RunEnd(s, i, WordChars) ELSE 0

SqlKeywords(s) == Matches(LAMBDA i : SqlKeywordAt(s, i), Len(s))

\* the draws of Math.random() > 0.5 for the letters of one keyword that the
\* model takes: all above, none above, every other one above
CaseDraws == {"upper", "lower", "alternate"}

\* keyword.split('').map(c => Math.random() > 0.5 ? c.toUpperCase() : c.toLowerCase())
Cased(word, draw) ==
    [k \in 1..Len(word) |->
        IF draw = "upper" \/ (draw = "alternate" /\ k % 2 = 1)
        THEN ToUpper(<<word[k]>>)[1] ELSE ToLower(<<word[k]>>)[1]]

\* SqlObfuscator.randomizeKeywordCase, the k-th keyword of the text cased by draws[k]
randomizeKeywordCase(s, draws) ==
    Replace(s, SqlKeywords(s),
            LAMBDA k : Cased(SubSeq(s, SqlKeywords(s)[k][1], SqlKeywords(s)[k][2] - 1), draws[k]))

\* s.replace(/lit/g, with) for a literal text lit
ReplaceLiteral(s, lit, with) ==
    Replace(s, Matches(LAMBDA i : IF StartsWithAt(s, i, lit) THEN i + Len(lit) ELSE 0, Len(s)),
            LAMBDA k : with)

\* SqlObfuscator.addWhitespacePadding
addWhitespacePadding(s) ==
    LET p1 == ReplaceLiteral(s, <<",">>, <<" ", ",", " ">>)
        p2 == ReplaceLiteral(p1, <<"(">>, <<" ", "(", " ">>)
        p3 == ReplaceLiteral(p2, <<")">>, <<" ", ")", " ">>)
        p4 == ReplaceLiteral(p3, <<"=">>, <<" ", "=", " ">>)
        p5 == ReplaceLiteral(p4, <<"<", ">">>, <<" ", "<", ">", " ">>)
        p6 == ReplaceLiteral(p5, <<"!", "=">>, <<" ", "!", "=", " ">>)
        p7 == ReplaceLiteral(p6, <<"<">>, <<" ", "<", " ">>)
        p8 == ReplaceLiteral(p7, <<">">>, <<" ", ">", " ">>)
    IN Trim(CollapseRuns(p8, WhiteSpace, 1, <<" ">>))

\* SqlObfuscator.minifySql
minifySql(s) ==
    LET m1 == CollapseRuns(s, WhiteSpace, 1, <<" ">>)
        m2 == TightenPunctuation(m1, {","}, {})
        m3 == TightenPunctuation(m2, {"("}, {})
        m4 == TightenPunctuation(m3, {")"}, {})
    IN Trim(TightenPunctuation(m4, {"="}, {}))

-----------------------------------------------------------------------------
(* HtmlObfuscator.                                                         *)

\* does the text lit, given in lower case, occur at position i of s whatever
\* the case of the letters of s: the flag i of a regular expression
StartsWithCI(s, i, lit) ==
    /\ i >= 1
    /\ i + Len(lit) - 1 <= Len(s)
    /\ ToLower(SubSeq(s, i, i + Len(lit) - 1)) = lit

\* the position of the first atom of the set stops at or after i, or Len(s) + 1
UntilEnd(s, i, stops) ==
    IF i > Len(s) THEN i
    ELSE Least({j \in i..(Len(s) + 1) : j > Len(s) \/ s[j] \in stops})

Quotes == {"\"", "'"}

\* the match of  /attr\s*=\s*["']prefix([^"']+)["']/gi  that starts at i, as
\* <<start of the group, position after the group, position after the match>>
AttrAt(s, i, attr, prefix) ==
    LET eq == SkipSpaces(s, i + Len(attr))
        q == SkipSpaces(s, eq + 1)
        v == q + 1 + Len(prefix)
        e == UntilEnd(s, v, Quotes)
    IN IF /\ StartsWithCI(s, i, attr)
          /\ eq <= Len(s) /\ s[eq] = "="
          /\ q <= Len(s) /\ s[q] \in Quotes
          /\ StartsWithAt(s, q + 1, prefix)
          /\ e > v /\ e <= Len(s)
       THEN <<v, e, e + 1>> ELSE <<0, 0, 0>>

AttrMatches(s, attr, prefix) == Matches(LAMBDA i : AttrAt(s, i, attr, prefix)[3], Len(s))

\* the group of the k-th match
AttrValue(s, attr, prefix, k) ==
    LET m == AttrAt(s, AttrMatches(s, attr, prefix)[k][1], attr, prefix)
    IN SubSeq(s, m[1], m[2] - 1)

\* classes.split(/\s+/)
RECURSIVE SplitSpaces(_)
SplitSpaces(v) ==
    LET ws == {j \in 1..Len(v) : IsSpace(v[j])}
    IN IF ws = {} THEN <<v>>
       ELSE <<SubSeq(v, 1, Least(ws) - 1)>>
            \o SplitSpaces(SliceFrom(v, SkipSpaces(v, Least(ws))))

ClassAttr == <<"c", "l", "a", "s", "s">>
IdAttr == <<"i", "d">>
ForAttr == <<"f", "o", "r">>
HrefAttr == <<"h", "r", "e", "f">>

\* the classes of every class attribute of the text, in order
ClassNames(s) ==
    FlatMap(LAMBDA k : SplitSpaces(AttrValue(s, ClassAttr, <<>>, k)),
            [k \in 1..Len(AttrMatches(s, ClassAttr, <<>>)) |-> k])

\* the values of every id attribute of the text, in order
IdNames(s) ==
    [k \in 1..Len(AttrMatches(s, IdAttr, <<>>)) |-> AttrValue(s, IdAttr, <<>>, k)]

\* the names the callbacks add to this.variableMap, which holds `map` before
RECURSIVE HtmlNewKeys(_, _, _)
HtmlNewKeys(names, map, acc) ==
    IF names = <<>> THEN acc
    ELSE HtmlNewKeys(Tail(names), map,
             IF /\ Trim(names[1]) # <<>>
                /\ MapGet(map, names[1]) = <<>>
                /\ \A k \in 1..Len(acc) : acc[k] # names[1]
             THEN Append(acc, names[1]) ELSE acc)

\* the first replace() of renameClassesAndIds, given the map the callbacks leave
RenameClassAttrs(s, map) ==
    Replace(s, AttrMatches(s, ClassAttr, <<>>),
            LAMBDA k :
                LET classes == SplitSpaces(AttrValue(s, ClassAttr, <<>>, k))
                IN ClassAttr \o <<"=", "\"">>
                   \o JoinWith([j \in 1..Len(classes) |->
                                   IF Trim(classes[j]) = <<>> THEN classes[j]
                                   ELSE MapGet(map, classes[j])], <<" ">>)
                   \o <<"\"">>)

\* the second replace() of renameClassesAndIds
RenameIdAttrs(s, map) ==
    Replace(s, AttrMatches(s, IdAttr, <<>>),
            LAMBDA k : IdAttr \o <<"=", "\"">> \o MapGet(map, AttrValue(s, IdAttr, <<>>, k))
                       \o <<"\"">>)

\* the replace() calls for  for="id"  and  href="#id": a reference whose id the
\* map does not hold stays as it is
RenameRefs(s, attr, prefix, map) ==
    Replace(s, AttrMatches(s, attr, prefix),
            LAMBDA k :
                IF MapGet(map, AttrValue(s, attr, prefix, k)) = <<>>
                THEN SubSeq(s, AttrMatches(s, attr, prefix)[k][1],
                            AttrMatches(s, attr, prefix)[k][2] - 1)
                ELSE attr \o <<"=", "\"">> \o prefix
                     \o MapGet(map, AttrValue(s, attr, prefix, k)) \o <<"\"">>)

\* the map() of encodeTextContent for one character; a generated name is one
\* atom and stays one
Entity(c) ==
    IF ~IsChar(c) \/ c \in {" ", "\n", "\t"} THEN <<c>>
    ELSE IF CharCode(c) >= 32 /\ CharCode(c) <= 126 /\ c \notin {"&", "<", ">"}
    THEN <<"&", "#">> \o DecimalDigits(CharCode(c)) \o <<";">>
    ELSE <<c>>

\* HtmlObfuscator.encodeTextContent:  code.replace(/>([^<]+)</g, ...)
encodeTextContent(s) ==
    LET textEnd(i) == UntilEnd(s, i + 1, {"<"})
        found == Matches(LAMBDA i : IF s[i] = ">" /\ textEnd(i) > i + 1 /\ textEnd(i) <= Len(s)
                                    THEN textEnd(i) + 1 ELSE 0, Len(s))
        text(k) == SubSeq(s, found[k][1] + 1, found[k][2] - 2)
    IN Replace(s, found,
               LAMBDA k : IF Trim(text(k)) = <<>> THEN <<">">> \o text(k) \o <<"<">>
                          ELSE <<">">> \o FlatMap(Entity, text(k)) \o <<"<">>)

\* the position of the first  </name>  at or after i whatever its case, or 0
ClosingAt(s, i, name) ==
    LET hits == {j \in i..Len(s) : StartsWithCI(s, j, <<"<", "/">> \o name \o <<">">>)}
    IN IF hits = {} THEN 0 ELSE Least(hits)

\* the match of  /<name[^>]*>([\s\S]*?)<\/name>/gi  that starts at i, as
\* <<start of the group, position after the group, position after the match>>
ElementAt(s, i, name) ==
    LET gt == UntilEnd(s, i + 1 + Len(name), {">"})
        close == ClosingAt(s, gt + 1, name)
    IN IF StartsWithCI(s, i, <<"<">> \o name) /\ gt <= Len(s) /\ close # 0
       THEN <<gt + 1, close, close + Len(name) + 3>> ELSE <<0, 0, 0>>

ElementMatches(s, name) == Matches(LAMBDA i : ElementAt(s, i, name)[3], Len(s))

\* the group of the k-th match
ElementContent(s, name, k) ==
    LET m == ElementAt(s, ElementMatches(s, name)[k][1], name)
    IN Between(s, m[1], m[2] - 1)

StyleTag == <<"s", "t", "y", "l", "e">>
ScriptTag == <<"s", "c", "r", "i", "p", "t">>

\* the replace() chain of obfuscateInlineStyles that minifies the style sheet
InlineCssMinify(css) ==
    LET m1 == RemoveDelimited(css, <<"/", "*">>, <<"*", "/">>)
        m2 == CollapseRuns(m1, WhiteSpace, 1, <<" ">>)
        m3 == TightenPunctuation(m2, {"{"}, {})
        m4 == TightenPunctuation(m3, {"}"}, {})
        m5 == TightenPunctuation(m4, {":"}, {})
    IN Trim(TightenPunctuation(m5, {";"}, {}))

\* css.replace(new RegExp(`\\.${escapeRegex(oldName)}\\b`, 'g'), '.' + newName), and
\* the same with # for the mark
ReplaceSelector(css, mark, oldName, newName) ==
    Replace(css,
            Matches(LAMBDA i : IF /\ StartsWithAt(css, i, <<mark>> \o oldName)
                                  /\ WordBoundary(css, i + 1 + Len(oldName))
                               THEN i + 1 + Len(oldName) ELSE 0, Len(css)),
            LAMBDA k : <<mark, newName>>)

\* this.variableMap.forEach(...) of obfuscateInlineStyles, in insertion order
RECURSIVE SyncSelectors(_, _)
SyncSelectors(css, map) ==
    IF map = <<>> THEN css
    ELSE SyncSelectors(
             ReplaceSelector(ReplaceSelector(css, ".", map[1].oldName, map[1].newName),
                             "#", map[1].oldName, map[1].newName),
             Tail(map))

\* HtmlObfuscator.obfuscateInlineStyles
obfuscateInlineStyles(s, map) ==
    Replace(s, ElementMatches(s, StyleTag),
            LAMBDA k : <<"<">> \o StyleTag \o <<">">>
                       \o SyncSelectors(InlineCssMinify(ElementContent(s, StyleTag, k)), map)
                       \o <<"<", "/">> \o StyleTag \o <<">">>)

\* the match of  fn\s*\(\s*['"]prefix name['"]\s*\)  that starts at i: the position
\* after it, or 0
CallAt(s, i, fn, arg) ==
    LET open == SkipSpaces(s, i + Len(fn))
        q == SkipSpaces(s, open + 1)
        close == SkipSpaces(s, q + 2 + Len(arg))
    IN IF /\ StartsWithAt(s, i, fn)
          /\ open <= Len(s) /\ s[open] = "("
          /\ q <= Len(s) /\ s[q] \in Quotes
          /\ StartsWithAt(s, q + 1, arg)
          /\ q + 1 + Len(arg) <= Len(s) /\ s[q + 1 + Len(arg)] \in Quotes
          /\ close <= Len(s) /\ s[close] = ")"
       THEN close + 1 ELSE 0

\* js.replace(new RegExp(...), `fn('prefix newName')`)
ReplaceCall(js, fn, prefix, oldName, newName) ==
    Replace(js, Matches(LAMBDA i : CallAt(js, i, fn, prefix \o oldName), Len(js)),
            LAMBDA k : fn \o <<"(", "'">> \o prefix \o <<newName, "'", ")">>)

GetElementById == <<"g", "e", "t", "E", "l", "e", "m", "e", "n", "t", "B", "y", "I", "d">>
QuerySelector == <<"q", "u", "e", "r", "y", "S", "e", "l", "e", "c", "t", "o", "r">>

\* this.variableMap.forEach(...) of obfuscateInlineScript
RECURSIVE SyncScript(_, _)
SyncScript(js, map) ==
    IF map = <<>> THEN js
    ELSE SyncScript(
             ReplaceCall(
                 ReplaceCall(
                     ReplaceCall(js, GetElementById, <<>>, map[1].oldName, map[1].newName),
                     QuerySelector, <<"#">>, map[1].oldName, map[1].newName),
                 QuerySelector, <<".">>, map[1].oldName, map[1].newName),
             Tail(map))

\* the replace() chain of obfuscateInlineScript that minifies the script
InlineJsMinify(js) ==
    Trim(CollapseRuns(
             RemoveDelimited(RemoveToLineEnd(js, <<"/", "/">>), <<"/", "*">>, <<"*", "/">>),
             WhiteSpace, 1, <<" ">>))

\* HtmlObfuscator.obfuscateInlineScript
obfuscateInlineScript(s, map) ==
    Replace(s, ElementMatches(s, ScriptTag),
            LAMBDA k :
                IF Trim(ElementContent(s, ScriptTag, k)) = <<>>
                THEN SubSeq(s, ElementMatches(s, ScriptTag)[k][1],
                            ElementMatches(s, ScriptTag)[k][2] - 1)
                ELSE <<"<">> \o ScriptTag \o <<">">>
                     \o SyncScript(InlineJsMinify(ElementContent(s, ScriptTag, k)), map)
                     \o <<"<", "/">> \o ScriptTag \o <<">">>)

\* HtmlObfuscator.minifyHtml
minifyHtml(s) ==
    LET m1 == Replace(s, Matches(LAMBDA i : IF /\ s[i] = ">"
                                              /\ SkipSpaces(s, i + 1) > i + 1
                                              /\ SkipSpaces(s, i + 1) <= Len(s)
                                              /\ s[SkipSpaces(s, i + 1)] = "<"
                                           THEN SkipSpaces(s, i + 1) + 1 ELSE 0, Len(s)),
                      LAMBDA k : <<">", "<">>)
        m2 == CollapseRuns(m1, WhiteSpace, 2, <<" ">>)
        m3 == Replace(m2, Matches(LAMBDA i : IF m2[i] = "\n" THEN SkipSpaces(m2, i + 1) ELSE 0,
                                  Len(m2)),
                      LAMBDA k : <<>>)
    IN Trim(m3)

GoPunctuation == {"{", "}", ",", "(", ")", "=", "+", "-", "*", "/", "<", ">", "!", "&", "|"}

GoSpacedKeywords ==
    {<<"f", "u", "n", "c">>, <<"v", "a", "r">>, <<"i", "f">>, <<"e", "l", "s", "e">>,
     <<"f", "o", "r">>, <<"r", "e", "t", "u", "r", "n">>, <<"t", "y", "p", "e">>,
     <<"s", "t", "r", "u", "c", "t">>, <<"r", "a", "n", "g", "e">>,
     <<"p", "a", "c", "k", "a", "g", "e">>, <<"i", "m", "p", "o", "r", "t">>}

\* GoObfuscator.minifyCode: the lines stay lines
GoMinify(text) ==
    LET m1 == RemoveToLineEnd(text, <<"/", "/">>)
        m2 == RemoveDelimited(m1, <<"/", "*">>, <<"*", "/">>)
        lines == TrimmedLines(m2)
    IN JoinWith([k \in 1..Len(lines) |->
                    SpaceAfterKeywords(
                        TightenPunctuation(CollapseRuns(lines[k], WhiteSpace, 1, <<" ">>),
                                           GoPunctuation, {}),
                        GoSpacedKeywords)], <<"\n">>)

-----------------------------------------------------------------------------
(* CssObfuscator.                                                          *)

\* [a-zA-Z_-]  and  [a-zA-Z0-9_-]
CssNameStart == LowerLetters \cup UpperLetters \cup {"_", "-"}
CssNameChars == CssNameStart \cup Digits

\* the end of the match of  /\.([a-zA-Z_-][a-zA-Z0-9_-]*)/g  at position i, or 0;
\* with mark "#" the match of idRegex
SelectorAt(s, i, mark) ==
    IF s[i] = mark /\ i + 1 <= Len(s) /\ s[i + 1] \in CssNameStart
    THEN RunEnd(s, i + 2, CssNameChars) ELSE 0

\* match[1] of every match of the while loop over classRegex or idRegex
SelectorNames(s, mark) ==
    LET found == Matches(LAMBDA i : SelectorAt(s, i, mark), Len(s))
    IN [k \in 1..Len(found) |-> SubSeq(s, found[k][1] + 1, found[k][2] - 1)]

\* the names the two loops of renameSelectors add to this.variableMap, which
\* holds `map` before
CssNewKeys(s, map) == HtmlNewKeys(SelectorNames(s, ".") \o SelectorNames(s, "#"), map, <<>>)

\* colorMap of obfuscateColors, in the order of Object.entries
ColorMap ==
    <<<<Chars("white"), Chars("#fff")>>,
      <<Chars("black"), Chars("#000")>>,
      <<Chars("red"), Chars("#f00")>>,
      <<Chars("green"), Chars("#0f0")>>,
      <<Chars("blue"), Chars("#00f")>>,
      <<Chars("yellow"), Chars("#ff0")>>,
      <<Chars("cyan"), Chars("#0ff")>>,
      <<Chars("magenta"), Chars("#f0f")>>,
      <<Chars("gray"), Chars("#808080")>>,
      <<Chars("grey"), Chars("#808080")>>,
      <<Chars("orange"), Chars("#ffa500")>>,
      <<Chars("purple"), Chars("#800080")>>,
      <<Chars("pink"), Chars("#ffc0cb")>>,
      <<Chars("brown"), Chars("#a52a2a")>>,
      <<Chars("silver"), Chars("#c0c0c0")>>,
      <<Chars("gold"), Chars("#ffd700")>>,
      <<Chars("navy"), Chars("#000080")>>,
      <<Chars("teal"), Chars("#008080")>>>>

\* result.replace(new RegExp(`:\\s*${name}\\b`, 'gi'), `:${hex}`)
ReplaceColor(s, name, hex) ==
    LET nameAt(i) == SkipSpaces(s, i + 1)
    IN Replace(s,
               Matches(LAMBDA i : IF /\ s[i] = ":"
                                     /\ StartsWithCI(s, nameAt(i), name)
                                     /\ WordBoundary(s, nameAt(i) + Len(name))
                                  THEN nameAt(i) + Len(name) ELSE 0, Len(s)),
               LAMBDA k : <<":">> \o hex)

\* the for loop of obfuscateColors over the entries `colors`
RECURSIVE ReplaceColors(_, _)
ReplaceColors(s, colors) ==
    IF colors = <<>> THEN s
    ELSE ReplaceColors(ReplaceColor(s, colors[1][1], colors[1][2]), Tail(colors))

\* CssObfuscator.obfuscateColors
obfuscateColors(s) == ReplaceColors(s, ColorMap)

\* CssObfuscator.minifyCss
minifyCss(s) ==
    LET m1 == CollapseRuns(s, WhiteSpace, 1, <<" ">>)
        m2 == TightenPunctuation(m1, {"{"}, {})
        m3 == TightenPunctuation(m2, {"}"}, {})
        m4 == TightenPunctuation(m3, {":"}, {})
        m5 == TightenPunctuation(m4, {";"}, {})
        m6 == TightenPunctuation(m5, {","}, {})
        m7 == Replace(m6, Matches(LAMBDA i : IF StartsWithAt(m6, i, <<";", "}">>)
                                             THEN i + 2 ELSE 0, Len(m6)),
                      LAMBDA k : <<"}">>)
    IN Trim(m7)

\* BaseObfuscator.getIntensityMultiplier
getIntensityMultiplier(o) ==
    CASE o.intensity = "low" -> 1
      [] o.intensity = "medium" -> 2
      [] o.intensity = "high" -> 3
      [] o.intensity = "extreme" -> 5
      [] OTHER -> 1

\* properties of addJunkRules
JunkProperties ==
    <<Chars("display:none"), Chars("visibility:hidden"), Chars("opacity:0"), Chars("position:absolute"), Chars("left:-9999px"), Chars("width:0"), Chars("height:0")>>

\* the draws of the random source for the junk rules of one call in the
\* model: every rule gets the same stem and the same property, the first or
\* the last
JunkDraws == CssStems \X {1, Len(JunkProperties)}

\* CssObfuscator.addJunkRules when the counter is n before and the random
\* source gives `draw`
addJunkRules(s, o, n, draw) ==
    s \o FlatMap(LAMBDA i : <<".", draw[1] \o ToString(n + i), "{">>
                            \o JunkProperties[draw[2]] \o <<"}">>,
                 [i \in 1..(getIntensityMultiplier(o) * 2) |-> i])

\* the last step of each obfuscate(): what the intensity and `minify` select
Minify(tag, text, o, keys) ==
    CASE tag = "javascript" ->
              IF o.intensity = "extreme" THEN applyExtremeObfuscation(text, keys)
              ELSE IF o.intensity = "high" THEN applyHighObfuscation(text)
              ELSE IF o.minify THEN JsMinify(text)
              ELSE text
      [] tag = "sql" -> IF o.minify THEN minifySql(text) ELSE text
      [] tag = "python" ->
              IF o.intensity = "extreme" THEN wrapWithZlibBase64Layers(text, 3, keys)
              ELSE IF o.intensity = "high" THEN wrapWithZlibBase64Layers(text, 2, keys)
              ELSE IF o.minify THEN wrapWithZlibBase64Layers(text, 1, keys)
              ELSE text
      [] OTHER ->
              IF o.minify \/ o.intensity = "high" \/ o.intensity = "extreme"
              THEN (CASE tag = "php" -> PhpMinify(text)
                      [] tag = "ruby" -> RubyMinify(text)
                      [] tag = "generic" -> GenericMinify(text)
                      [] tag = "bash" -> BashMinify(text)
                      [] tag = "go" -> GoMinify(text)
                      [] tag = "html" -> minifyHtml(text)
                      [] tag = "css" -> minifyCss(text))
              ELSE text

-----------------------------------------------------------------------------
(* The calls the model makes.                                              *)

\* the tags given to obfuscateCode: the nineteen of the table, tags the table
\* does not hold, and names every object inherits
LanguageTags ==
    DOMAIN HandlerTable \cup {"generic", "typescript", "", "constructor", "toString"}

\* the pieces the source texts of the model are made of, per language
JsFragments ==
    {<<"v", "a", "r", " ", "$", "a", ";", "$", "a", "=", "1", ";", "\n">>,
     <<"f", "(", "(", "x", ")", "=", ">", "x", ")", ";", "\n">>,
     <<"s", "=", "\"", "$", "$", "\"", ";", "\n">>,
     <<"t", "=", "\"", "/", "*", "*", "/", "\"", ";", "\n">>,
     <<"u", "=", "\"", "/", "/", "\"", ";", "\n">>,
     <<"L", "=", "\"", LongRun, "\"", ";", "\n">>,
     <<"l", "e", "t", " ", "b", "=", "1", ";", " ", "/", "/", " ", "c", "\n">>,
     <<"f", "u", "n", "c", "t", "i", "o", "n", " ", "g", "(", "b", ")", "{", "r", "e",
       "t", "u", "r", "n", " ", "b", ";", "}", "\n">>}

PhpFragments ==
    {<<"$", "n", "=", "1", ";", "\n">>,
     <<"e", "c", "h", "o", " ", "\"", "$", "n", "\"", ";", "\n">>,
     <<"$", "l", "i", "s", "t", "=", "2", ";", " ", "#", " ", "c", "\n">>,
     <<"e", "c", "h", "o", " ", "'", "/", "/", "'", ";", "\n">>,
     <<"r", "e", "t", "u", "r", "n", " ", "$", "n", ";", "\n">>}

RubyFragments ==
    {<<"d", "e", "f", " ", "n", "i", "l", "?", "\n">>,
     <<"y", " ", "=", " ", "n", "i", "l", "\n">>,
     <<"s", " ", "=", " ", "\"", "'", "b", "'", LongRun, "\"", "\n">>,
     <<"p", "u", "t", "s", " ", "\"", "#", "{", "y", "}", "\"", " ", "#", " ", "c",
       "\n">>,
     <<"e", "n", "d", "\n">>,
     <<" ", " ", "r", "e", "t", "u", "r", "n", " ", "y", "\n">>}

GenericFragments ==
    {<<"l", "e", "t", " ", "a", "b", " ", "=", " ", "'", "$", "\"", "b", "\"", "'", "\n">>,
     <<"i", "n", "t", " ", "c", "d", " ", "=", " ", "1", " ", "-", "-", " ", "c", "\n">>,
     <<"p", "r", "i", "n", "t", "(", "a", "b", ")", " ", "#", " ", "c", "\n">>,
     <<"s", " ", "=", " ", "\"", "$", "x", "\"", "\n">>}

Fragments(tag) ==
    CASE tag = "javascript" -> JsFragments
      [] tag = "php" -> PhpFragments
      [] tag = "ruby" -> RubyFragments
      [] tag \in {"generic", "typescript", ""} -> GenericFragments
      [] OTHER -> {}

\* the texts of at most n fragments
RECURSIVE Texts(_, _)
Texts(tag, n) ==
    IF n = 0 THEN {<<>>}
    ELSE Texts(tag, n - 1) \cup {t \o f : t \in Texts(tag, n - 1), f \in Fragments(tag)}

\* the partial options records given to obfuscateCode
OptionChoices ==
    {[intensity |-> "high"],
     [intensity |-> "extreme"],
     [renameVariables |-> FALSE, encodeStrings |-> FALSE, removeComments |-> FALSE,
      deadCodeInjection |-> FALSE, intensity |-> "low"],
     [encodeStrings |-> FALSE, deadCodeInjection |-> FALSE, minify |-> TRUE,
      intensity |-> "low"],
     [base64Strings |-> TRUE, renameVariables |-> FALSE, intensity |-> "low"],
     [hexEncoding |-> FALSE, deadCodeInjection |-> FALSE, intensity |-> "medium"]}

Init ==
    /\ lang \in LanguageTags
    /\ options \in OptionChoices
    /\ code \in Texts(lang, MaxFragments)
    /\ opts = defaultOptions
    /\ handler = "none"
    /\ pc = 0
    /\ result = <<>>
    /\ previous = <<>>
    /\ strings = <<>>
    /\ varMap = <<>>
    /\ counter = 0
    /\ restored = <<>>
    /\ done = <<>>
    /\ outcome = "idle"
    /\ shebang = <<>>
    /\ calls = 0
    /\ plain = <<>>
    /\ xorKey = 0
    /\ literals = <<>>
    /\ decoded = <<>>
    /\ args = <<>>

\* createObfuscator(language, options)
CreateObfuscator ==
    /\ outcome = "idle"
    /\ opts' = MergeOptions(options)
    /\ handler' = createObfuscator(lang)
    /\ outcome' = IF createObfuscator(lang) = "TypeError" THEN "threw" ELSE "created"
    /\ UNCHANGED <<lang, options, code, pc, result, previous, strings, varMap, counter,
                   restored, done>>
    /\ UNCHANGED <<shebang, calls, encryptVars, helperVars>>

\* the handlers whose obfuscate() the model executes
ModelledHandlers ==
    {"JavaScriptObfuscator", "PhpObfuscator", "RubyObfuscator", "GenericObfuscator",
     "BashObfuscator", "SqlObfuscator", "HtmlObfuscator", "GoObfuscator",
     "PythonObfuscator", "CssObfuscator"}

\* the first statements of BashObfuscator.obfuscate: a first line that starts
\* with #! is kept aside; as <<shebang, the text that goes on>>
SplitShebang(h, text) ==
    IF h = "BashObfuscator" /\ StartsWithAt(text, 1, <<"#", "!">>)
    THEN <<SliceTo(text, IndexOf(text, <<"\n">>)), SliceFrom(text, IndexOf(text, <<"\n">>) + 1)>>
    ELSE <<<<>>, text>>

\* .obfuscate(code): the call and the first statements of the method; what
\* new Object(opts) returned has no such method
CallObfuscate ==
    /\ outcome = "created"
    /\ handler \in ModelledHandlers \cup {"options record"}
    /\ outcome' = IF handler = "options record" THEN "threw" ELSE "running"
    /\ result' = IF handler = "options record" THEN result ELSE SplitShebang(handler, code)[2]
    /\ shebang' = SplitShebang(handler, code)[1]
    /\ calls' = calls + 1
    /\ UNCHANGED <<lang, options, opts, code, handler, pc, previous, strings, varMap,
                   counter, restored, done>>
    /\ UNCHANGED <<encryptVars, helperVars>>

\* is `stage` the next stage of the running obfuscate()
AtStage(stage) ==
    /\ outcome = "running"
    /\ pc < Len(Stages(handler))
    /\ Stages(handler)[pc + 1] = stage

\* if (this.options.removeComments) { ... }
RemoveCommentsStep ==
    /\ AtStage("comments")
    /\ pc' = pc + 1
    /\ previous' = result
    /\ result' = IF opts.removeComments THEN RemoveComments(TagOf(handler), result) ELSE result
    /\ done' = IF opts.removeComments THEN Append(done, "comments") ELSE done
    /\ UNCHANGED <<lang, options, opts, code, handler, strings, varMap, counter, restored,
                   outcome>>
    /\ UNCHANGED <<shebang, calls, encryptVars, helperVars>>

\* the replace() calls that move the literals into `strings`
ExtractStrings ==
    /\ AtStage("extract")
    /\ pc' = pc + 1
    /\ previous' = result
    /\ result' = Extract(TagOf(handler), result).text
    /\ strings' = Extract(TagOf(handler), result).table
    /\ done' = Append(done, "extract")
    /\ UNCHANGED <<lang, options, opts, code, handler, varMap, counter, restored, outcome>>
    /\ UNCHANGED <<shebang, calls, encryptVars, helperVars>>

\* the names the random source can hand to one renameIdentifiers call
NamePool(tag) ==
    CASE tag = "javascript" -> JsNames
      [] tag \in {"php", "ruby", "bash", "go", "python"} -> SigilNames
      [] tag = "generic" -> GenericStems

\* varMap after the discovery loops, when the k-th generated name is pick[k]
NewMap(tag, keys, pick) ==
    [k \in 1..Len(keys) |->
        [oldName |-> keys[k],
         newName |-> IF tag = "generic" THEN pick[k] \o ToString(counter + k) ELSE pick[k]]]

\* if (this.options.renameVariables) { result = this.renameIdentifiers(result) }
RenameIdentifiers ==
    /\ AtStage("rename")
    /\ previous' = result
    /\ IF opts.renameVariables
       THEN \E keys \in {RenameKeys(TagOf(handler), result)} :
            \E pick \in [1..Len(keys) -> NamePool(TagOf(handler))] :
            \E map \in {NewMap(TagOf(handler), keys, pick)} :
            \E out \in {renameIdentifiers(TagOf(handler), result, map)} :
                /\ varMap' = map
                /\ counter' = IF handler = "GenericObfuscator" THEN counter + Len(keys)
                              ELSE counter
                /\ result' = out.text
                /\ outcome' = IF out.threw THEN "threw" ELSE outcome
                /\ pc' = IF out.threw THEN pc ELSE pc + 1
                /\ done' = IF out.threw THEN done ELSE Append(done, "rename")
       ELSE /\ pc' = pc + 1
            /\ UNCHANGED <<varMap, counter, result, outcome, done>>
    /\ UNCHANGED <<lang, options, opts, code, handler, strings, restored>>
    /\ UNCHANGED <<shebang, calls, encryptVars, helperVars>>

\* for (const { original, placeholder } of strings) { ... }
RestoreStringsStep ==
    /\ AtStage("restore")
    /\ pc' = pc + 1
    /\ previous' = result
    /\ result' = RestoreStrings(TagOf(handler), result, strings, opts, varMap)
    /\ restored' = RestoreStrings(TagOf(handler), result, strings, opts, varMap)
    /\ done' = Append(done, "restore")
    /\ UNCHANGED <<lang, options, opts, code, handler, strings, varMap, counter, outcome>>
    /\ UNCHANGED <<shebang, calls, encryptVars, helperVars>>

\* if (this.options.deadCodeInjection) { ... }, under the draws of Math.random
InjectDeadCodeStep ==
    /\ AtStage("deadcode")
    /\ pc' = pc + 1
    /\ previous' = result
    /\ IF opts.deadCodeInjection
       THEN /\ \E pick \in DeadCodePicks(TagOf(handler), result) :
                  result' = InjectDeadCode(TagOf(handler), result, pick)
            /\ done' = Append(done, "deadcode")
       ELSE UNCHANGED <<result, done>>
    /\ UNCHANGED <<lang, options, opts, code, handler, strings, varMap, counter, restored,
                   outcome>>
    /\ UNCHANGED <<shebang, calls, encryptVars, helperVars>>

\* does the last step of obfuscate() call a minifier or an intensity transform
Minifies(tag, o) ==
    \/ o.minify
    \/ tag # "sql" /\ o.intensity \in {"high", "extreme"}

\* the intensity switch of JavaScriptObfuscator; if (minify || high || extreme)
\* of the other handlers
MinifyStep ==
    /\ AtStage("minify")
    /\ pc' = pc + 1
    /\ previous' = result
    /\ \E keys \in KeyDraws(TagOf(handler), result, opts) :
          result' = Minify(TagOf(handler), result, opts, keys)
    /\ done' = IF Minifies(TagOf(handler), opts) THEN Append(done, "minify") ELSE done
    /\ UNCHANGED <<lang, options, opts, code, handler, strings, varMap, counter, restored,
                   outcome>>
    /\ UNCHANGED <<shebang, calls, encryptVars, helperVars>>

\* return result;  return shebang + result;  of BashObfuscator
Return ==
    /\ outcome = "running"
    /\ pc = Len(Stages(handler))
    /\ outcome' = "returned"
    /\ result' = shebang \o result
    /\ UNCHANGED <<lang, options, opts, code, handler, pc, previous, strings, varMap,
                   counter, restored, done>>
    /\ UNCHANGED <<shebang, calls, encryptVars, helperVars>>

\* if (this.options.renameVariables) { result = this.renameAliases(result) }
\* of SqlObfuscator; this.variableMap and this.counter are fields of the instance
RenameAliasesStep ==
    /\ AtStage("aliases")
    /\ pc' = pc + 1
    /\ previous' = result
    /\ IF opts.renameVariables
       THEN \E keys \in {SqlNewAliases(SqlAliases(result), varMap, <<>>)} :
            \E pick \in [1..Len(keys) -> SqlStems] :
            \E map \in {SqlMap(varMap, keys, pick, counter)} :
                /\ varMap' = map
                /\ counter' = counter + Len(keys)
                /\ result' = ReplaceNames(result, map).text
                /\ done' = Append(done, "rename")
       ELSE UNCHANGED <<varMap, counter, result, done>>
    /\ UNCHANGED <<lang, options, opts, code, handler, strings, restored, outcome>>
    /\ UNCHANGED <<shebang, calls, encryptVars, helperVars>>

\* result = this.randomizeKeywordCase(result)  of SqlObfuscator, under the draws
\* of Math.random
RandomizeKeywordCaseStep ==
    /\ AtStage("keywords")
    /\ pc' = pc + 1
    /\ previous' = result
    /\ \E draws \in [1..Len(SqlKeywords(result)) -> CaseDraws] :
          result' = randomizeKeywordCase(result, draws)
    /\ done' = Append(done, "keywords")
    /\ UNCHANGED <<lang, options, opts, code, handler, strings, varMap, counter, restored,
                   outcome>>
    /\ UNCHANGED <<shebang, calls, encryptVars, helperVars>>

\* if (this.options.intensity !== 'low') { result = this.addWhitespacePadding(result) }
PadWhitespaceStep ==
    /\ AtStage("padding")
    /\ pc' = pc + 1
    /\ previous' = result
    /\ result' = IF opts.intensity # "low" THEN addWhitespacePadding(result) ELSE result
    /\ done' = IF opts.intensity # "low" THEN Append(done, "padding") ELSE done
    /\ UNCHANGED <<lang, options, opts, code, handler, strings, varMap, counter, restored,
                   outcome>>
    /\ UNCHANGED <<shebang, calls, encryptVars, helperVars>>

\* this.variableMap with new names for keys: generateObfuscatedName draws
\* pick[k] for the k-th and the counter is n before
HtmlMap(map, keys, pick, n) ==
    map \o [k \in 1..Len(keys) |->
               [oldName |-> keys[k], newName |-> pick[k] \o ToString(n + k)]]

\* if (this.options.renameVariables) { result = this.renameClassesAndIds(result) }
\* of HtmlObfuscator: the four replace() calls, in order
RenameClassesStep ==
    /\ AtStage("classes")
    /\ pc' = pc + 1
    /\ previous' = result
    /\ IF opts.renameVariables
       THEN \E classes \in {HtmlNewKeys(ClassNames(result), varMap, <<>>)} :
            \E pickC \in [1..Len(classes) -> HtmlStems] :
            \E mapC \in {HtmlMap(varMap, classes, pickC, counter)} :
            \E textC \in {RenameClassAttrs(result, mapC)} :
            \E ids \in {HtmlNewKeys(IdNames(textC), mapC, <<>>)} :
            \E pickI \in [1..Len(ids) -> HtmlStems] :
            \E map \in {HtmlMap(mapC, ids, pickI, counter + Len(classes))} :
                /\ varMap' = map
                /\ counter' = counter + Len(classes) + Len(ids)
                /\ result' = RenameRefs(RenameRefs(RenameIdAttrs(textC, map), ForAttr, <<>>, map),
                                        HrefAttr, <<"#">>, map)
                /\ done' = Append(done, "rename")
       ELSE UNCHANGED <<varMap, counter, result, done>>
    /\ UNCHANGED <<lang, options, opts, code, handler, strings, restored, outcome>>
    /\ UNCHANGED <<shebang, calls, encryptVars, helperVars>>

\* if (this.options.encodeStrings) { result = this.encodeTextContent(result) }
EncodeTextStep ==
    /\ AtStage("entities")
    /\ pc' = pc + 1
    /\ previous' = result
    /\ result' = IF opts.encodeStrings THEN encodeTextContent(result) ELSE result
    /\ done' = IF opts.encodeStrings THEN Append(done, "entities") ELSE done
    /\ UNCHANGED <<lang, options, opts, code, handler, strings, varMap, counter, restored,
                   outcome>>
    /\ UNCHANGED <<shebang, calls, encryptVars, helperVars>>

\* result = this.obfuscateInlineStyles(result)
InlineStylesStep ==
    /\ AtStage("styles")
    /\ pc' = pc + 1
    /\ previous' = result
    /\ result' = obfuscateInlineStyles(result, varMap)
    /\ done' = Append(done, "styles")
    /\ UNCHANGED <<lang, options, opts, code, handler, strings, varMap, counter, restored,
                   outcome>>
    /\ UNCHANGED <<shebang, calls, encryptVars, helperVars>>

\* result = this.obfuscateInlineScript(result)
InlineScriptStep ==
    /\ AtStage("scripts")
    /\ pc' = pc + 1
    /\ previous' = result
    /\ result' = obfuscateInlineScript(result, varMap)
    /\ done' = Append(done, "scripts")
    /\ UNCHANGED <<lang, options, opts, code, handler, strings, varMap, counter, restored,
                   outcome>>
    /\ UNCHANGED <<shebang, calls, encryptVars, helperVars>>

\* if (this.options.renameVariables) { result = this.renameSelectors(result) }
\* of CssObfuscator; this.variableMap and this.counter are fields of the instance
RenameSelectorsStep ==
    /\ AtStage("selectors")
    /\ pc' = pc + 1
    /\ previous' = result
    /\ IF opts.renameVariables
       THEN \E keys \in {CssNewKeys(result, varMap)} :
            \E pick \in [1..Len(keys) -> CssStems] :
            \E map \in {HtmlMap(varMap, keys, pick, counter)} :
                /\ varMap' = map
                /\ counter' = counter + Len(keys)
                /\ result' = SyncSelectors(result, map)
                /\ done' = Append(done, "rename")
       ELSE UNCHANGED <<varMap, counter, result, done>>
    /\ UNCHANGED <<lang, options, opts, code, handler, strings, restored, outcome>>
    /\ UNCHANGED <<shebang, calls, encryptVars, helperVars>>

\* if (this.options.encodeStrings) { result = this.obfuscateColors(result) }
ObfuscateColorsStep ==
    /\ AtStage("colors")
    /\ pc' = pc + 1
    /\ previous' = result
    /\ result' = IF opts.encodeStrings THEN obfuscateColors(result) ELSE result
    /\ done' = IF opts.encodeStrings THEN Append(done, "colors") ELSE done
    /\ UNCHANGED <<lang, options, opts, code, handler, strings, varMap, counter, restored,
                   outcome>>
    /\ UNCHANGED <<shebang, calls, encryptVars, helperVars>>

\* if (this.options.deadCodeInjection && this.options.intensity !== 'low')
\* { result = this.addJunkRules(result) }
AddJunkRulesStep ==
    /\ AtStage("junk")
    /\ pc' = pc + 1
    /\ previous' = result
    /\ IF opts.deadCodeInjection /\ opts.intensity # "low"
       THEN /\ \E draw \in JunkDraws : result' = addJunkRules(result, opts, counter, draw)
            /\ counter' = counter + getIntensityMultiplier(opts) * 2
            /\ done' = Append(done, "junk")
       ELSE UNCHANGED <<result, counter, done>>
    /\ UNCHANGED <<lang, options, opts, code, handler, strings, varMap, restored, outcome>>
    /\ UNCHANGED <<shebang, calls, encryptVars, helperVars>>

Next ==
    \/ CreateObfuscator
    \/ CallObfuscate
    \/ RemoveCommentsStep
    \/ ExtractStrings
    \/ RenameIdentifiers
    \/ RenameAliasesStep
    \/ RenameClassesStep
    \/ RenameSelectorsStep
    \/ ObfuscateColorsStep
    \/ AddJunkRulesStep
    \/ EncodeTextStep
    \/ InlineStylesStep
    \/ InlineScriptStep
    \/ RandomizeKeywordCaseStep
    \/ RestoreStringsStep
    \/ PadWhitespaceStep
    \/ InjectDeadCodeStep
    \/ MinifyStep
    \/ Return

Spec == Init /\ [][Next]_vars

-----------------------------------------------------------------------------
(* Sessions: the handlers for Bash and the calls that follow the first on   *)
(* one handler instance.                                                   *)

\* the source texts of a session, per language
BashTexts ==
    {<<"n", "=", "1", "\n", "e", "c", "h", "o", " ", "\"", "$", "{", "n", ":", "-", "x", "}",
       "\"", "\n">>,
     <<"#", "!", "/", "b", "i", "n", "/", "s", "h", "\n", "f", "(", ")", " ", "{", "\n",
       "r", "e", "t", "u", "r", "n", " ", "1", "\n", "}", "\n">>,
     <<"n", "=", "1", " ", "#", " ", "c", "\n", "e", "c", "h", "o", " ", "\"", "$", "n", " ",
       "$", "m", "\"", " ", "'", "q", "'", "\n">>}

JsSessionTexts ==
    {<<"v", "a", "r", " ", "s", "=", "\"", "h", "i", "\"", ";", "\n">>,
     <<"t", "=", "\"", "a", "\t", "b", "\"", ";", "\n">>,
          <<"v", "a", "r", " ", "o", "=", "{", "k", ":", "v", ",", "}", ";", "\n", "g", "(", "o",
       "?", "k", ":", "v", ")", ";", "\n">>}

PhpSessionTexts ==
    {<<"e", "c", "h", "o", " ", "'", "h", "i", "'", ";", "\n">>}

SqlTexts ==
    {<<"s", "e", "l", "e", "c", "t", " ", "x", " ", "f", "r", "o", "m", " ", "t", " ", "a", " ",
       "w", "h", "e", "r", "e", " ", "a", ".", "x", "=", "'", "v", "'", "\n">>,
     <<"S", "E", "L", "E", "C", "T", " ", "f", "(", "y", ")", " ", "F", "R", "O", "M", " ", "u",
       " ", "A", "S", " ", "b", " ", "-", "-", " ", "k", "\n">>}

HtmlTexts ==
    {<<"<", "b", " ", "c", "l", "a", "s", "s", "=", "\"", "b", "t", "n", " ", "b", "t", "n", "-",
       "p", "r", "i", "m", "a", "r", "y", "\"", ">", "x", "<", "/", "b", ">", "<", "s", "t", "y",
       "l", "e", ">", ".", "b", "t", "n", "-", "p", "r", "i", "m", "a", "r", "y", " ", "{", " ",
       "}", "<", "/", "s", "t", "y", "l", "e", ">">>,
     <<"<", "i", " ", "i", "d", "=", "'", "m", "'", ">", "<", "/", "i", ">", " ", "<", "!", "-",
       "-", "c", "-", "-", ">", "<", "s", "c", "r", "i", "p", "t", ">", "g", "e", "t", "E", "l",
       "e", "m", "e", "n", "t", "B", "y", "I", "d", "(", "\"", "m", "\"", ")", " ", "/", "/", "k",
       "\n", "<", "/", "s", "c", "r", "i", "p", "t", ">">>}

CssTexts ==
    {<<"b", "{", "c", "o", "l", "o", "r", ":", "#", "f", "a", "b", ";", "b", "a", "c", "k",
       "g", "r", "o", "u", "n", "d", ":", "u", "r", "l", "(", "i", ".", "p", "n", "g", ")",
       "}", "\n">>,
     <<".", "a", " ", "{", " ", "c", "o", "l", "o", "r", ":", " ", "r", "e", "d", ";", " ",
       "}", "\n", "/", "*", " ", "c", " ", "*", "/", "\n", "#", "m", "{", "}", "\n">>}

RubySessionTexts ==
    {<<"h", " ", "=", " ", "{", "\"", "k", "\"", " ", "=", ">", " ", "1", "}", "\n">>}

SessionTexts(tag) ==
    CASE tag = "bash" -> BashTexts
      [] tag = "ruby" -> RubySessionTexts
      [] tag = "html" -> HtmlTexts
      [] tag = "css" -> CssTexts
      [] tag = "javascript" -> JsSessionTexts
      [] tag = "php" -> PhpSessionTexts
      [] tag = "sql" -> SqlTexts
      [] OTHER -> {}

SessionTags == {"bash", "javascript", "php", "ruby", "sql", "html", "css"}

\* every transformation switched off
AllOff ==
    [renameVariables |-> FALSE, encodeStrings |-> FALSE, removeComments |-> FALSE,
     deadCodeInjection |-> FALSE, unicodeEscape |-> FALSE, hexEncoding |-> FALSE,
     base64Strings |-> FALSE, minify |-> FALSE, intensity |-> "low"]

\* the partial options records of a session
SessionOptionChoices ==
    {[intensity |-> "high"],
     AllOff,
     [encodeStrings |-> FALSE, base64Strings |-> TRUE, intensity |-> "low"],
     [minify |-> TRUE, intensity |-> "medium"]}

SessionInit ==
    /\ lang \in SessionTags
    /\ options \in SessionOptionChoices
    /\ code \in SessionTexts(lang)
    /\ opts = defaultOptions
    /\ handler = "none"
    /\ pc = 0
    /\ result = <<>>
    /\ previous = <<>>
    /\ strings = <<>>
    /\ varMap = <<>>
    /\ counter = 0
    /\ restored = <<>>
    /\ done = <<>>
    /\ outcome = "idle"
    /\ shebang = <<>>
    /\ calls = 0
    /\ plain = <<>>
    /\ xorKey = 0
    /\ literals = <<>>
    /\ decoded = <<>>
    /\ args = <<>>

\* the calls of obfuscate() one handler instance receives in the model
MaxCalls == 2

\* the handlers whose identifier map is the field this.variableMap of
\* BaseObfuscator, which no method clears
KeepsMap(h) == h \in {"SqlObfuscator", "HtmlObfuscator", "CssObfuscator"}

\* obfuscator.obfuscate(code) once more on the same instance: the locals of the
\* method are new, this.varMap is cleared by the handlers that have one,
\* this.variableMap and this.counter are what the call before left
CallAgain ==
    /\ outcome = "returned"
    /\ calls < MaxCalls
    /\ \E text \in SessionTexts(lang) :
          /\ code' = text
          /\ result' = SplitShebang(handler, text)[2]
          /\ shebang' = SplitShebang(handler, text)[1]
    /\ calls' = calls + 1
    /\ outcome' = "running"
    /\ pc' = 0
    /\ previous' = <<>>
    /\ strings' = <<>>
    /\ restored' = <<>>
    /\ done' = <<>>
    /\ varMap' = IF KeepsMap(handler) THEN varMap ELSE <<>>
    /\ UNCHANGED <<lang, options, opts, handler, counter>>
    /\ UNCHANGED <<encryptVars, helperVars>>

SessionNext ==
    \/ Next
    \/ CallAgain

SessionSpec == SessionInit /\ [][SessionNext]_vars

-----------------------------------------------------------------------------
(* JavaObfuscator.encryptString and the decoder it generates.              *)

\* the longest content the model encrypts, in UTF-16 code units
MaxPlain == 2

\* the code units of the contents: one of ASCII, one of Latin-1, and three
\* above 0xFF
CodeUnits == {65, 233, 256, 8364, 65535}

\* the contents  "..."  of 1 to MaxPlain code units, as c.charCodeAt(0) of each
Plains == UNION {[1..n -> CodeUnits] : n \in 1..MaxPlain}

\* Math.floor(Math.random() * 100) + 1
XorKeys == 1..100

\* n.toString(16)
RECURSIVE HexString(_)
HexString(n) ==
    IF n < 16 THEN <<HexDigits[n + 1]>>
    ELSE HexString(n \div 16) \o <<HexDigits[(n % 16) + 1]>>

\* s.padStart(4, '0')
PadStart4(s) == [k \in 1..(IF Len(s) < 4 THEN 4 - Len(s) ELSE 0) |-> "0"] \o s

\* `0x${encrypted.toString(16).padStart(4, '0').toUpperCase()}`  with
\* encrypted = c.charCodeAt(0) ^ (key + i)
EncryptedLiteral(unit, key, i) ==
    <<"0", "x">> \o ToUpper(PadStart4(HexString(Xor(unit, key + i))))

\* str.split('').map((c, i) => ...): the elements of the int[] initialiser
encryptString(str, key) ==
    [k \in 1..Len(str) |-> EncryptedLiteral(str[k], key, k - 1)]

\* the value of a hexadecimal int literal of Java
RECURSIVE JavaHexValue(_)
JavaHexValue(literal) ==
    LET digits == IF StartsWithAt(literal, 1, <<"0", "x">>) THEN SliceFrom(literal, 3)
                  ELSE literal
        last == ToLower(<<digits[Len(digits)]>>)[1]
        value == (CHOOSE d \in 1..16 : HexDigits[d] = last) - 1
    IN IF Len(digits) = 1 THEN value
       ELSE 16 * JavaHexValue(SubSeq(digits, 1, Len(digits) - 1)) + value

\* one turn of the generated loop:  int t = arr[i]; t ^= key + i;
\* sb.append((char)(t & 0xFF))
DecodeUnit(literal, key, i) == Xor(JavaHexValue(literal), key + i) % 256

\* what the generated supplier returns, as code units
RunSupplier(arr, key) == [k \in 1..Len(arr) |-> DecodeUnit(arr[k], key, k - 1)]

EncryptInit ==
    /\ lang = "java"
    /\ options = [hexEncoding |-> TRUE, encodeStrings |-> TRUE]
    /\ code = <<>>
    /\ opts = MergeOptions([hexEncoding |-> TRUE, encodeStrings |-> TRUE])
    /\ handler = "JavaObfuscator"
    /\ pc = 0
    /\ result = <<>>
    /\ previous = <<>>
    /\ strings = <<>>
    /\ varMap = <<>>
    /\ counter = 0
    /\ restored = <<>>
    /\ done = <<>>
    /\ outcome = "running"
    /\ shebang = <<>>
    /\ calls = 1
    /\ plain \in Plains
    /\ xorKey = 0
    /\ literals = <<>>
    /\ decoded = <<>>
    /\ args = <<>>

pipelineVars ==
    <<lang, options, opts, code, handler, pc, result, previous, strings, varMap, counter,
      restored, done, outcome, shebang, calls>>

\* replacement = this.encryptString(content), taken when hexEncoding and
\* encodeStrings are set and base64Strings is not
EncryptStringStep ==
    /\ opts.hexEncoding /\ opts.encodeStrings /\ ~opts.base64Strings
    /\ literals = <<>>
    /\ \E key \in XorKeys :
          /\ xorKey' = key
          /\ literals' = encryptString(plain, key)
    /\ UNCHANGED <<plain, decoded>>
    /\ UNCHANGED <<pipelineVars, helperVars>>

\* the obfuscated program evaluates the supplier the literal was replaced by
RunDecoder ==
    /\ literals # <<>>
    /\ decoded = <<>>
    /\ decoded' = RunSupplier(literals, xorKey)
    /\ UNCHANGED <<plain, xorKey, literals>>
    /\ UNCHANGED <<pipelineVars, helperVars>>

EncryptNext ==
    \/ EncryptStringStep
    \/ RunDecoder

EncryptSpec == EncryptInit /\ [][EncryptNext]_vars

-----------------------------------------------------------------------------
(* The handlers for Go, Python and CSS, each on texts of its language.     *)

\* the source texts, per language
GoTexts ==
    {<<"f", "u", "n", "c", " ", "f", "(", ")", " ", "{", "\n", "s", " ", ":", "=", " ",
       Backtick, "{", Backtick, "\n", "}", "\n", "t", "y", "p", "e", " ", "T", " ", "s", "t",
       "r", "u", "c", "t", " ", "{", "\n", "x", " ", "i", "n", "t", "\n", "}", "\n">>,
     <<"v", "a", "r", " ", "a", " ", "=", " ", "\"", "h", "i", "\"", " ", "/", "/", " ", "c",
       "\n", "f", "u", "n", "c", " ", "g", "(", ")", " ", "{", "\n", "i", "f", " ", "a", " ",
       "{", "\n", "r", "e", "t", "u", "r", "n", "\n", "}", "\n", "}", "\n">>}

PyTexts ==
    {<<"x", " ", "=", " ", "'", "'", "'", "a", "'", "'", "'", "\n", "p", "r", "i", "n", "t",
       "(", "x", ")", " ", "#", " ", "c", "\n">>,
     <<"d", "e", "f", " ", "f", "(", "s", ")", ":", "\n", " ", " ", " ", " ", "t", " ", "=",
       " ", "\"", "h", "i", "\"", "\n", " ", " ", " ", " ", "r", "e", "t", "u", "r", "n", " ",
       "s", " ", "+", " ", "t", "\n">>}

HandlerTexts(tag) ==
    CASE tag = "go" -> GoTexts
      [] tag = "python" -> PyTexts
      [] OTHER -> {}

HandlerTags == {"go", "python"}

\* the partial options records of these calls
HandlerOptionChoices ==
    {[intensity |-> "high"],
     [encodeStrings |-> FALSE, intensity |-> "medium"],
     [removeComments |-> FALSE, renameVariables |-> FALSE, deadCodeInjection |-> FALSE,
      minify |-> TRUE, intensity |-> "low"]}

HandlerInit ==
    /\ lang \in HandlerTags
    /\ options \in HandlerOptionChoices
    /\ code \in HandlerTexts(lang)
    /\ opts = defaultOptions
    /\ handler = "none"
    /\ pc = 0
    /\ result = <<>>
    /\ previous = <<>>
    /\ strings = <<>>
    /\ varMap = <<>>
    /\ counter = 0
    /\ restored = <<>>
    /\ done = <<>>
    /\ outcome = "idle"
    /\ shebang = <<>>
    /\ calls = 0
    /\ plain = <<>>
    /\ xorKey = 0
    /\ literals = <<>>
    /\ decoded = <<>>
    /\ args = <<>>

\* the steps of the obfuscate() methods of these handlers
HandlerNext ==
    \/ CreateObfuscator
    \/ CallObfuscate
    \/ RemoveCommentsStep
    \/ ExtractStrings
    \/ RenameIdentifiers
    \/ RestoreStringsStep
    \/ InjectDeadCodeStep
    \/ MinifyStep
    \/ Return

HandlerSpec == HandlerInit /\ [][HandlerNext]_vars

-----------------------------------------------------------------------------
(* The comment helpers of BaseObfuscator, each called on its own.          *)

\* the longest text of all the characters below that a helper is called on
MaxText == 4

\* the characters of the texts: the two quotes, the backslash, the characters
\* of the markers, a letter and the line break
HelperChars == {"/", "*", "\"", "'", "\\", "a", "\n"}

\* lines that hold a marker inside a literal and a comment after it
HelperLines ==
    {<<"\"", "/", "/", "\"", "/", "/", "a">>,
     <<"\"", "\\", "\"", "\"", "/", "/", "a">>,
     <<"a", " ", "/", "/", "a", "\n", "a">>,
     <<"/", "*", "a", "*", "/", "a", "/", "*", "/", "a", "/", "*">>}

HelperTexts == UNION {[1..n -> HelperChars] : n \in 0..MaxText} \cup HelperLines

\* the calls of the model: the helper and its arguments after `code`
HelperCalls ==
    {[helper |-> "removeSingleLineComments", commentChar |-> <<"/", "/">>],
     [helper |-> "removeMultiLineComments", start |-> <<"/", "*">>, end |-> <<"*", "/">>],
     [helper |-> "removeMultiLineComments", start |-> <<"*">>, end |-> <<"*">>],
     [helper |-> "removeMultiLineComments", start |-> <<"'", "'">>, end |-> <<"'">>]}

\* a constructed obfuscator on which no helper has been called yet
HelperInit ==
    /\ lang = ""
    /\ options = [removeComments |-> TRUE]
    /\ code = <<>>
    /\ opts = MergeOptions([removeComments |-> TRUE])
    /\ handler = "BaseObfuscator"
    /\ pc = 0
    /\ result = <<>>
    /\ previous = <<>>
    /\ strings = <<>>
    /\ varMap = <<>>
    /\ counter = 0
    /\ restored = <<>>
    /\ done = <<>>
    /\ outcome = "idle"
    /\ shebang = <<>>
    /\ calls = 0
    /\ plain = <<>>
    /\ xorKey = 0
    /\ literals = <<>>
    /\ decoded = <<>>
    /\ args = [helper |-> "none"]

\* what the body of a helper leaves alone
helperFrame ==
    <<lang, options, opts, code, handler, strings, varMap, counter, restored, shebang, calls,
      encryptVars, helperVars>>

\* a handler calls a helper on a text:  let result = code
CallHelper ==
    /\ outcome = "idle"
    /\ \E text \in HelperTexts, call \in HelperCalls :
           /\ code' = text
           /\ result' = text
           /\ args' = call
    /\ calls' = calls + 1
    /\ outcome' = "running"
    /\ UNCHANGED <<lang, options, opts, handler, pc, previous, strings, varMap, counter,
                   restored, done, shebang, encryptVars>>

\* removeSingleLineComments(code, commentChar): the whole method
RemoveSingleLineCommentsCall ==
    /\ outcome = "running"
    /\ args.helper = "removeSingleLineComments"
    /\ previous' = result
    /\ result' = removeSingleLineComments(result, args.commentChar)
    /\ pc' = pc + 1
    /\ done' = Append(done, "removeSingleLineComments")
    /\ outcome' = "returned"
    /\ UNCHANGED helperFrame

\* result.indexOf(end): the search for the end marker from the start of the
\* text, whatever startIdx is
EndIdxAnywhere(text, end, startIdx) == IndexOf(text, end)

\* result.indexOf(start)  and  result.indexOf(end, startIdx)  of
\* removeMultiLineComments, 1-based, 0 for -1
StartIdx(text, start) == IndexOf(text, start)
EndIdx(text, end, startIdx) == IndexOfFrom(text, end, startIdx)

\* result.substring(0, startIdx) + result.substring(endIdx + end.length)
CutComment(text, startIdx, endIdx, end) ==
    SliceTo(text, startIdx - 1) \o SliceFrom(text, endIdx + Len(end))

\* one turn of the while loop of removeMultiLineComments that finds the end
\* marker
MultiLineTurn ==
    /\ outcome = "running"
    /\ args.helper = "removeMultiLineComments"
    /\ StartIdx(result, args.start) # 0
    /\ EndIdx(result, args.end, StartIdx(result, args.start)) # 0
    /\ previous' = result
    /\ result' = CutComment(result, StartIdx(result, args.start),
                            EndIdx(result, args.end, StartIdx(result, args.start)), args.end)
    /\ pc' = pc + 1
    /\ done' = Append(done, "turn")
    /\ UNCHANGED outcome
    /\ UNCHANGED helperFrame

\* the loop ends: no start marker is left, or the break of the turn that finds
\* no end marker; return result
MultiLineReturn ==
    /\ outcome = "running"
    /\ args.helper = "removeMultiLineComments"
    /\ \/ StartIdx(result, args.start) = 0
       \/ EndIdx(result, args.end, StartIdx(result, args.start)) = 0
    /\ previous' = result
    /\ done' = Append(done, IF StartIdx(result, args.start) = 0 THEN "exit" ELSE "break")
    /\ outcome' = "returned"
    /\ UNCHANGED <<result, pc>>
    /\ UNCHANGED helperFrame

\* a step of the loop of removeMultiLineComments
MultiLineStep == MultiLineTurn \/ MultiLineReturn

HelperNext ==
    \/ CallHelper
    \/ RemoveSingleLineCommentsCall
    \/ MultiLineStep

HelperSpec == HelperInit /\ [][HelperNext]_vars

\* removeMultiLineComments is synchronous: a call that has started takes the
\* next step of its loop until it returns
HelperFairSpec == HelperSpec /\ WF_vars(MultiLineStep)

-----------------------------------------------------------------------------
(* The string decoders of JavaScriptObfuscator.applyExtremeObfuscation.    *)

\* the position from which key + position exceeds 0xFF for every key
MaxPosition == 246

\* Math.floor(Math.random() * 50) + 10
ExtremeKeys == 10..59

\* the contents of the literals, as c.charCodeAt(0) of each character: the
\* short ones, and one character after MaxPosition letters a
ExtremeContents ==
    Plains \cup {[k \in 1..MaxPosition |-> 97] \o <<unit>> : unit \in CodeUnits}

\* chars.map((c, j) => (c ^ (key + j)) & 0xFF)
ExtremeEncoded(chars, key) == [k \in 1..Len(chars) |-> Xor(chars[k], key + k - 1) % 256]

\* the body of the generated function:
\* for(var i=0;i<a.length;i++)s+=String.fromCharCode(a[i]^(key+i));return s;
RunDecoderFunction(a, key) == [k \in 1..Len(a) |-> Xor(a[k], key + k - 1) % 65536]

DecoderInit ==
    /\ lang = "javascript"
    /\ options = [intensity |-> "extreme"]
    /\ code = <<>>
    /\ opts = MergeOptions([intensity |-> "extreme"])
    /\ handler = "JavaScriptObfuscator"
    /\ pc = 0
    /\ result = <<>>
    /\ previous = <<>>
    /\ strings = <<>>
    /\ varMap = <<>>
    /\ counter = 0
    /\ restored = <<>>
    /\ done = <<>>
    /\ outcome = "running"
    /\ shebang = <<>>
    /\ calls = 1
    /\ plain \in ExtremeContents
    /\ xorKey = 0
    /\ literals = <<>>
    /\ decoded = <<>>
    /\ args = <<>>

\* strings.map((s, i) => ...) of applyExtremeObfuscation for one string: the
\* key is drawn and the array of the decoder is computed
CreateDecoder ==
    /\ opts.intensity = "extreme"
    /\ literals = <<>>
    /\ \E key \in ExtremeKeys :
          /\ xorKey' = key
          /\ literals' = ExtremeEncoded(plain, key)
    /\ UNCHANGED <<plain, decoded>>
    /\ UNCHANGED <<pipelineVars, helperVars>>

\* the obfuscated program calls the decoder function
CallDecoder ==
    /\ literals # <<>>
    /\ decoded = <<>>
    /\ decoded' = RunDecoderFunction(literals, xorKey)
    /\ UNCHANGED <<plain, xorKey, literals>>
    /\ UNCHANGED <<pipelineVars, helperVars>>

DecoderNext ==
    \/ CreateDecoder
    \/ CallDecoder

DecoderSpec == DecoderInit /\ [][DecoderNext]_vars

-----------------------------------------------------------------------------
(* The statements of the specification, as properties of Spec.             *)

\* the literals of a text, as the extraction of the handler finds them
LiteralsOf(tag, text) == Extract(tag, text).table

\* has the last stage that ran been `stage`
JustRan(stage) == done # <<>> /\ done[Len(done)] = stage

ReservedOf(tag) ==
    CASE tag = "javascript" -> JsReserved
      [] tag = "php" -> PhpReserved
      [] tag = "ruby" -> RubyReserved
      [] tag = "generic" -> GenericReserved
      [] tag = "bash" -> BashReserved
      [] tag = "sql" -> SqlReserved
      [] tag = "go" -> GoReserved
      [] tag = "python" -> PyReserved

\* the words of a text: its longest runs of word characters, in order; a Ruby
\* word takes a ? or ! that follows it, a PHP word the sigil before it
WordsOf(tag, s) ==
    LET wordEnd(i) ==
            LET e == RunEnd(s, i, WordChars)
            IN IF tag = "ruby" /\ e <= Len(s) /\ s[e] \in {"?", "!"} THEN e + 1 ELSE e
        wordAt(i) ==
            IF WordBoundary(s, i) /\ IsWordChar(s[i]) THEN wordEnd(i)
            ELSE IF tag = "php" /\ s[i] = "$" /\ i < Len(s) /\ IsWordChar(s[i + 1])
                 THEN RunEnd(s, i + 1, WordChars)
            ELSE 0
        found == Matches(wordAt, Len(s))
    IN [k \in 1..Len(found) |-> Join(SubSeq(s, found[k][1], found[k][2] - 1))]

\* how often the word w occurs among words
Occurrences(words, w) == Cardinality({k \in 1..Len(words) : words[k] = w})

\* does the identifier name occur in s with no identifier character of the
\* language on either side
OccursAsName(tag, s, name) ==
    LET chars == IF tag = "javascript" THEN JsNameChars ELSE WordChars
    IN \E i \in 1..Len(s) :
          /\ StartsWithAt(s, i, name)
          /\ ~(i > 1 /\ s[i - 1] \in chars)
          /\ ~(i + Len(name) <= Len(s) /\ s[i + Len(name)] \in chars)

\* the identifier a key of the map stands for: PhpObfuscator keeps its keys
\* without the sigil
IdentifierOf(tag, key) == IF tag = "php" THEN <<"$">> \o key ELSE key

\* does a literal hold the comment marker // or /*
HasCommentMarker(original) ==
    Contains(original, <<"/", "/">>) \/ Contains(original, <<"/", "*">>)

\* is a literal double-quoted with one of the markers $name, ${, $( or #{ in it
Interpolated(original) ==
    /\ original[1] = "\""
    /\ \E i \in 1..(Len(original) - 1) :
          \/ original[i] = "$" /\ (IsIdentStart(original[i + 1]) \/ original[i + 1] \in {"{", "("})
          \/ original[i] = "#" /\ original[i + 1] = "{"

\* is a literal of the input in the text `text` in full: verbatim, as the
\* restoration loop encodes it, as applyHighObfuscation encodes that, or in a
\* decoder of applyExtremeObfuscation
Retained(tag, entry, text) ==
    LET restoredAs == Replacement(tag, entry, opts, <<>>)
    IN \/ Contains(text, entry.original)
       \/ Contains(text, restoredAs)
       \/ /\ tag = "javascript"
          /\ Contains(text, HexEncodeStrings(restoredAs))
       \/ /\ tag = "javascript"
          /\ \E k \in 1..Len(text) : \E idx \in PlaceholderIndexes : \E key \in DecoderKeys :
                text[k] \in {Decoder(entry.original, idx, key), Decoder(restoredAs, idx, key)}

\* C1: for every source text, language tag and options record, obfuscateCode
\* returns a string and no stage throws.
C1_NoStageThrows == outcome # "threw"

\* C2: createObfuscator returns the dedicated handler for each tag of its table
\* and a GenericObfuscator for every other tag string; it never fails and never
\* returns something that is not a handler.
C2_FactoryReturnsHandler ==
    outcome # "idle" =>
        handler = (IF lang \in DOMAIN HandlerTable THEN HandlerTable[lang]
                   ELSE "GenericObfuscator")

\* C3: when no encoding, renaming, comment removal, dead-code injection or
\* minification is applied, replacing the literals by placeholders and restoring
\* them reproduces the input text exactly.
C3_ExtractRestoreRoundTrip ==
    (/\ outcome = "returned"
     /\ \A k \in 1..Len(done) : done[k] \in {"extract", "restore"}
     /\ ~opts.encodeStrings
     /\ ~opts.base64Strings)
    => result = code

\* C4: the text obfuscate returns contains no placeholder token created during
\* the call.
C4_NoPlaceholderReturned ==
    outcome = "returned" =>
        \A k \in 1..Len(strings) : ~Contains(result, <<strings[k].placeholder>>)

\* C5: in every handler literal extraction runs before the comment-removal stage
\* and before the identifier-renaming stage.
C5_ExtractionRunsFirst ==
    \A k \in 1..Len(done) :
        done[k] \in {"comments", "rename"} => \E j \in 1..(k - 1) : done[j] = "extract"

\* C6: C-family handlers with removeComments = TRUE: a literal of the input that
\* holds a comment marker is in the returned text in full, verbatim or encoded.
C6_MarkerInLiteralKept ==
    (/\ outcome = "returned"
     /\ handler \in {"JavaScriptObfuscator", "PhpObfuscator"}
     /\ opts.removeComments)
    => \A k \in 1..Len(LiteralsOf(TagOf(handler), code)) :
          LET entry == LiteralsOf(TagOf(handler), code)[k]
          IN HasCommentMarker(entry.original) => Retained(TagOf(handler), entry, result)

\* C7: after the renaming stage no reserved word is a key of the identifier map,
\* and no occurrence of a reserved word in the text has been replaced.
C7_ReservedWordsUntouched ==
    JustRan("rename") =>
        LET tag == TagOf(handler)
            before == WordsOf(tag, RenameInput(tag, previous))
            after == WordsOf(tag, result)
        IN /\ \A k \in 1..Len(varMap) :
                 Join(IdentifierOf(tag, varMap[k].oldName)) \notin ReservedOf(tag)
           /\ \A k \in 1..Len(before) :
                 before[k] \in ReservedOf(tag)
                 => Occurrences(after, before[k]) >= Occurrences(before, before[k])

\* C8: with renameVariables = TRUE, every whole-word occurrence of an identifier
\* that matches a declaration-site pattern and is not reserved is replaced by
\* the generated name: after the renaming stage the identifier occurs nowhere.
C8_EveryOccurrenceRenamed ==
    JustRan("rename") =>
        \A k \in 1..Len(varMap) :
            ~OccursAsName(TagOf(handler), result,
                          IdentifierOf(TagOf(handler), varMap[k].oldName))

\* C9: JavaScript handler with hexEncoding = TRUE and encodeStrings = TRUE, at
\* every intensity and minify setting: a quoted literal whose content has 100 or
\* more characters is in the returned text unencoded.
C9_LongLiteralUnencoded ==
    (/\ outcome = "returned"
     /\ handler = "JavaScriptObfuscator"
     /\ opts.hexEncoding
     /\ opts.encodeStrings)
    => \A k \in 1..Len(LiteralsOf("javascript", code)) :
          LET original == LiteralsOf("javascript", code)[k].original
          IN (original[1] \in {"\"", "'"} /\ CharLength(Content(original)) >= EncodeLimit)
             => Contains(result, original)

\* C10: in the handlers of the languages with string interpolation, a literal
\* that holds an interpolation marker is restored unchanged, identifier renaming
\* inside the marker apart, whatever the encoding options.
C10_InterpolatedLiteralUnencoded ==
    (/\ JustRan("restore")
     /\ handler \in {"PhpObfuscator", "RubyObfuscator"})
    => \A k \in 1..Len(strings) :
          Interpolated(strings[k].original)
          => \/ Contains(restored, strings[k].original)
             \/ /\ handler = "RubyObfuscator"
                /\ Contains(restored, RubyInterpolate(strings[k].original, varMap))

\* the literal `original` with each identifier that follows $ or ${ replaced by
\* its new name when the map has one, and nothing else changed
BashRenamedIn(original, map) ==
    LET nameAt(i) ==
            IF /\ IsIdentStart(original[i])
               /\ \/ i > 1 /\ original[i - 1] = "$"
                  \/ i > 2 /\ original[i - 1] = "{" /\ original[i - 2] = "$"
            THEN RunEnd(original, i, WordChars) ELSE 0
        found == Matches(nameAt, Len(original))
        name(k) == SubSeq(original, found[k][1], found[k][2] - 1)
    IN Replace(original, found,
               LAMBDA k : IF MapGet(map, name(k)) = <<>> THEN name(k) ELSE MapGet(map, name(k)))

\* C11: Bash handler with renameVariables = TRUE: a double-quoted literal that
\* holds $name or ${name...} is restored as the original with only the renamed
\* identifiers replaced; the $, the braces and the text inside the braces after
\* the name stay, and so do the identifiers the map does not hold.
C11_BashExpansionKept ==
    (/\ JustRan("restore")
     /\ handler = "BashObfuscator"
     /\ opts.renameVariables)
    => \A k \in 1..Len(strings) :
          BashHasInterpolation(strings[k].original)
          => Contains(restored, BashRenamedIn(strings[k].original, varMap))

\* the control-transfer keywords of a language
ControlTransfer(tag) ==
    {<<"r", "e", "t", "u", "r", "n">>, <<"t", "h", "r", "o", "w">>,
     <<"b", "r", "e", "a", "k">>, <<"c", "o", "n", "t", "i", "n", "u", "e">>,
     <<"g", "o", "t", "o">>}
    \cup (CASE tag = "php" -> {<<"e", "x", "i", "t">>, <<"d", "i", "e">>}
            [] tag = "ruby" -> {<<"n", "e", "x", "t">>, <<"r", "a", "i", "s", "e">>}
            [] tag = "bash" -> {<<"e", "x", "i", "t">>}
            [] OTHER -> {})

\* is `after` the text `before` with one dead-code snippet of the handler put
\* directly after line k
InjectedAfter(tag, before, after, k) ==
    LET lines == SplitOn(before, "\n")
    IN \E n \in 1..Len(DeadSnippets(tag)) :
          SplitOn(after, "\n")
              = SubSeq(lines, 1, k) \o <<DeadSnippets(tag)[n]>> \o SubSeq(lines, k + 1, Len(lines))

\* C12: with deadCodeInjection = TRUE no injected statement is placed directly
\* after a line whose trimmed content holds a control-transfer keyword of the
\* language.
C12_NoDeadCodeAfterTransfer ==
    JustRan("deadcode") =>
        \A k \in 1..Len(SplitOn(previous, "\n")) :
            HasWord(Trim(SplitOn(previous, "\n")[k]), ControlTransfer(TagOf(handler)))
            => ~InjectedAfter(TagOf(handler), previous, result, k)

\* C13: with encodeStrings = FALSE every literal of the input is in the output
\* with its original text, whatever base64Strings, hexEncoding, unicodeEscape
\* and intensity are.
C13_NoEncodingWithoutEncodeStrings ==
    (outcome = "returned" /\ ~opts.encodeStrings)
    => \A k \in 1..Len(strings) : Contains(result, strings[k].original)

\* C14: in every handler the minifier runs whenever minify = TRUE, and whenever
\* intensity is high or extreme even if minify = FALSE; it does not run when
\* minify = FALSE and intensity is low or medium.
C14_MinifierRunsWhenSelected ==
    outcome = "returned"
    => (("minify" \in {done[k] : k \in 1..Len(done)})
        <=> (opts.minify \/ opts.intensity \in {"high", "extreme"}))

\* C15: for any sequence of obfuscate calls on one handler instance, every call
\* starts with an empty identifier map and a reset counter.
C15_EveryCallStartsFresh ==
    (outcome = "running" /\ pc = 0) => (varMap = <<>> /\ counter = 0)

\* [a-zA-Z0-9_-], the characters of the name of a selector
SelectorChars == LowerLetters \cup UpperLetters \cup Digits \cup {"_", "-"} \cup NameTokens

\* the number of selectors of s that consist of the mark and exactly the name
SelectorCount(s, mark, name) ==
    Cardinality({i \in 1..Len(s) :
                    /\ StartsWithAt(s, i, <<mark>> \o name)
                    /\ ~(i + 1 + Len(name) <= Len(s) /\ s[i + 1 + Len(name)] \in SelectorChars)})

\* C16: once HtmlObfuscator has renamed the classes and ids, every selector .c
\* or #c of the embedded style sheet whose name c is a key of the map is
\* rewritten to exactly the name the HTML got, also when one class is a prefix
\* of another up to a hyphen (btn and btn-primary).
C16_SelectorsFollowHtmlNames ==
    (JustRan("styles") /\ handler = "HtmlObfuscator") =>
        \A k \in 1..Len(varMap) : \A mark \in {".", "#"} :
            SelectorCount(result, mark, <<varMap[k].newName>>)
                = SelectorCount(previous, mark, varMap[k].oldName)

\* C17: for every handler, when renameVariables, encodeStrings, removeComments,
\* deadCodeInjection, unicodeEscape, hexEncoding, base64Strings and minify are
\* all FALSE and intensity is low, obfuscate returns the input text unchanged.
C17_AllOffIsIdentity ==
    (/\ outcome = "returned"
     /\ \A f \in DOMAIN AllOff : opts[f] = AllOff[f])
    => result = code

\* C18: Java handler, hexEncoding and encodeStrings: for every eligible content,
\* code units above 0xFF included, and every key from 1 to 100, the generated
\* XOR decoder evaluates to exactly the original content.
C18_DecoderYieldsOriginal ==
    decoded # <<>> => decoded = plain

\* C19: in every handler the restoration of the literals runs after the renaming
\* of the identifiers and after the dead-code injection; the only stage that may
\* run after the restoration is the minifier.
C19_RestorationIsLastButMinify ==
    \A i \in 1..Len(done) : \A j \in (i + 1)..Len(done) :
        done[i] = "restore" => done[j] = "minify"

\* C20: between extraction and restoration no stage alters, removes or
\* duplicates a placeholder, and identifier discovery never records a
\* placeholder as a name to rename.
C20_PlaceholdersUntouched ==
    (/\ outcome = "running"
     /\ "extract" \in {done[k] : k \in 1..Len(done)}
     /\ "restore" \notin {done[k] : k \in 1..Len(done)})
    => \A k \in 1..Len(strings) :
          /\ CountChar(result, strings[k].placeholder) = 1
          /\ \A m \in 1..Len(varMap) : varMap[m].oldName # <<strings[k].placeholder>>

\* C21: within one obfuscate call two different original identifiers are never
\* mapped to the same generated name, whatever the random source returns.
C21_GeneratedNamesDistinct ==
    \A i \in 1..Len(varMap) : \A j \in 1..Len(varMap) :
        varMap[i].oldName # varMap[j].oldName => varMap[i].newName # varMap[j].newName

\* the number of quote characters of the line before position i that no
\* backslash precedes
UnescapedQuotes(line, i) ==
    Cardinality({j \in 1..(i - 1) :
                    /\ line[j] \in {"'", "\""}
                    /\ ~(j > 1 /\ line[j - 1] = "\\")})

\* the line cut at the first marker that has an even number of unescaped quotes
\* to its left; the line itself when no marker has
CutAtComment(line, marker) ==
    LET cuts == {i \in 1..Len(line) :
                    StartsWithAt(line, i, marker) /\ UnescapedQuotes(line, i) % 2 = 0}
    IN IF cuts = {} THEN line ELSE TrimEnd(SliceTo(line, Least(cuts) - 1))

\* C22: removeSingleLineComments removes the text from a marker to the end of
\* the line exactly when the number of unescaped quotes to the left of the
\* marker is even: a quote after a backslash is not counted, and every marker
\* of the line is a candidate, not only the first one.
C22_CommentCutAtEvenQuotes ==
    (outcome = "returned" /\ args.helper = "removeSingleLineComments")
    => LET lines == SplitOn(code, "\n")
       IN result = JoinWith(NonBlank([k \in 1..Len(lines) |->
                                         CutAtComment(lines[k], args.commentChar)]), <<"\n">>)

\* is the literal one the hex strategy applies to: short enough, not a template
\* literal, in the quotes the handler encodes, with no interpolation marker
HexEligible(tag, original) ==
    /\ Encodable(Content(original))
    /\ original[1] # Backtick
    /\ tag = "bash" => original[1] = "\""
    /\ ~Contains(original, <<"$">>)
    /\ ~Contains(original, <<"#", "{">>)

\* C23: under hexEncoding and encodeStrings, in a handler that uses the hex
\* strategy, an eligible literal is restored as one escape \xHH of two hex
\* digits for each byte of its content, and no character is left unescaped.
C23_OneEscapePerByte ==
    (/\ JustRan("restore")
     /\ TagOf(handler) \in {"javascript", "php", "ruby", "bash"}
     /\ opts.hexEncoding /\ opts.encodeStrings /\ ~opts.base64Strings)
    => \A k \in 1..Len(strings) :
          (/\ HexEligible(TagOf(handler), strings[k].original)
           /\ Contains(previous, <<strings[k].placeholder>>))
          => Contains(restored, FlatMap(HexEscape, SpellAll(Content(strings[k].original))))

\* is line k of the text inside an open function body: the brace depth since
\* the enclosing func line is at least 1, with the braces of the string
\* literals not counted
GoInsideBody(text, k) ==
    LET lines == SplitOn(Extract("go", text).text, "\n")
    IN GoBraceState(lines, k).insideFunc /\ GoBraceState(lines, k).braceDepth >= 1

\* C24: Go handler: a dead-code statement is injected only after a line that is
\* inside a currently open function body, never at top level or inside a
\* top-level type declaration, also when the string literals of a function body
\* hold brace characters.
C24_GoDeadCodeInsideFunctions ==
    (JustRan("deadcode") /\ handler = "GoObfuscator") =>
        \A k \in 1..Len(SplitOn(previous, "\n")) :
            InjectedAfter("go", previous, result, k) => GoInsideBody(previous, k)

\* where the triple-quoted literal that opens at position i with quote q ends
\* (the position after it), or 0
TripleQuotedAt(s, i, q) ==
    IF StartsWithAt(s, i, <<q, q, q>>)
    THEN LET e == IndexOfFrom(s, <<q, q, q>>, i + 3) IN IF e = 0 THEN 0 ELSE e + 3
    ELSE 0

\* the triple-quoted literals of a Python text
TripleQuoted(s) ==
    Matches(LAMBDA i : IF TripleQuotedAt(s, i, "'") # 0 THEN TripleQuotedAt(s, i, "'")
                       ELSE TripleQuotedAt(s, i, "\""), Len(s))

\* the literal at position i is used as a value: text of its line that is not
\* a comment stands before it
UsedAsValue(s, i) ==
    LET lineStart == Greatest({0} \cup {j \in 1..(i - 1) : s[j] = "\n"}) + 1
        before == SubSeq(s, lineStart, i - 1)
    IN Trim(before) # <<>> /\ ~Contains(before, <<"#">>)

\* C25: with removeComments set, the comment removal of the Python handler
\* leaves every triple-quoted literal that is used as a value in the text
C25_PyValueLiteralsKept ==
    (JustRan("comments") /\ handler = "PythonObfuscator") =>
        \A k \in 1..Len(TripleQuoted(previous)) :
            UsedAsValue(previous, TripleQuoted(previous)[k][1]) =>
                Contains(result, SubSeq(previous, TripleQuoted(previous)[k][1],
                                        TripleQuoted(previous)[k][2] - 1))

\* the contents of the style and script elements of an HTML text
EmbeddedContents(s) ==
    {ElementContent(s, StyleTag, k) : k \in 1..Len(ElementMatches(s, StyleTag))}
    \cup {ElementContent(s, ScriptTag, k) : k \in 1..Len(ElementMatches(s, ScriptTag))}

\* C26: encodeTextContent of the HTML handler leaves the content of every style
\* and script element as it was
C26_EmbeddedContentNotEncoded ==
    (JustRan("entities") /\ handler = "HtmlObfuscator") =>
        \A content \in EmbeddedContents(previous) : Contains(result, content)

\* C27: removeMultiLineComments terminates: every turn of its loop leaves a
\* strictly shorter text, the break on a start marker without an end marker
\* leaves the text as it was, and every call returns
C27_MultiLineTerminates ==
    /\ [](args.helper = "removeMultiLineComments" =>
              /\ JustRan("turn") => Len(result) < Len(previous)
              /\ JustRan("break") => (result = previous /\ outcome = "returned")
              /\ pc <= Len(code))
    /\ (args.helper = "removeMultiLineComments" /\ outcome = "running")
           ~> (outcome = "returned")

\* the loop has cut two comments and then met a start marker without an end
\* marker
C27_TurnsThenBreak ==
    /\ args.helper = "removeMultiLineComments"
    /\ JustRan("break")
    /\ pc = 2
    /\ Len(result) < Len(code)
    /\ StartIdx(result, args.start) # 0

\* C28: at intensity extreme, the decoder function generated for a string
\* literal returns the content of the literal, for every key and every
\* character
C28_DecoderReturnsContent ==
    (handler = "JavaScriptObfuscator" /\ decoded # <<>>) => decoded = plain

\* C29: the renaming stage of the JavaScript handler changes nothing but the
\* whole-word occurrences of the keys of its map: its result is the text before
\* it with each key replaced by its new name
C29_JsRenameOnlyMapKeys ==
    (JustRan("rename") /\ handler = "JavaScriptObfuscator") =>
        result = ReplaceNames(previous, varMap).text

\* the declaration blocks of a style sheet: each  { ... }  with its braces
DeclarationBlocks(s) ==
    LET found == Matches(LAMBDA i : IF s[i] = "{" /\ UntilEnd(s, i, {"}"}) <= Len(s)
                                    THEN UntilEnd(s, i, {"}"}) + 1 ELSE 0, Len(s))
    IN {SubSeq(s, found[k][1], found[k][2] - 1) : k \in 1..Len(found)}

\* C30: renameSelectors of the CSS handler rewrites selectors only: every
\* declaration block is in the text after it as it was before it
C30_CssValuesUnchanged ==
    (JustRan("rename") /\ handler = "CssObfuscator") =>
        \A block \in DeclarationBlocks(previous) : Contains(result, block)

====
